---- MODULE Spec2Model ----
(***************************************************************************)
(* A model of egui's text-selection visuals                                *)
(* (crates/egui/src/text_selection/visuals.rs): paint_text_selection,      *)
(* which splices a highlight rectangle into the mesh of every selected     *)
(* row of a reference-counted Galley, and paint_text_cursor, the blinking  *)
(* cursor; and of egui-winit's State (crates/egui-winit/src/lib.rs), which *)
(* stands between a winit window and egui.                                 *)
(*                                                                         *)
(* Conventions.  Rust indices are 0-based and are kept 0-based in every    *)
(* value of the model (row numbers, columns, positions in an index         *)
(* buffer); Get/Set translate to TLA+'s 1-based sequences.  Lengths and    *)
(* coordinates are f32 in the source; the model uses integers, and every   *)
(* row height it lays out is even, so that `height / 2.0` is exact.  Mesh  *)
(* indices are u32 in the source; the meshes of the model stay far below   *)
(* 2^32 vertices, so no index wraps.                                       *)
(***************************************************************************)
EXTENDS Integers, Sequences, FiniteSets, TLC

VARIABLES
    galleyHeap,     \* the allocated Galley objects; an Arc<Galley> is an index into it
    rowHeap,        \* the allocated Row objects; an Arc<Row> is an index into it
    galley,         \* the caller's handle, `galley: &mut Arc<Galley>`
    otherGalleys,   \* Galley objects some other owner holds a handle to
    otherRows,      \* Row objects some other owner holds a handle to
    observed,       \* what each other owner saw when it took its handle
    sink,           \* the caller's Vec<RowVertexIndices>
    call,           \* the last call of paint_text_selection: its inputs and the state before it
    text_cursor,    \* ui.visuals().text_cursor: blink, on_duration, off_duration
    painter,        \* the shapes the Painter was given, in order
    repaints,       \* the delays passed to request_repaint_after_secs, in order
    blink,          \* the calls of paint_text_cursor: their number and their times, and
                    \* the last one's inputs and the state before it
    state,          \* the egui_winit::State of a window
    egui_ctx,       \* what the egui::Context answers: wants_keyboard_input() and the like
    window,         \* the winit Window: its scale factor and the calls made on it
    input           \* the calls made on the State, as the properties read them

selVars == <<galleyHeap, rowHeap, galley, otherGalleys, otherRows, observed, sink, call>>
curVars == <<text_cursor, painter, repaints, blink>>
winVars == <<state, egui_ctx, window, input>>
vars == <<galleyHeap, rowHeap, galley, otherGalleys, otherRows, observed, sink, call,
          text_cursor, painter, repaints, blink, state, egui_ctx, window, input>>

----------------------------------------------------------------------------
(* Bounds of the model. *)

\* Rows of a galley.
MaxRows == 3
\* Handles held by other owners at one time.
MaxShared == 1
\* Calls of paint_text_selection on one galley.
MaxPaints == 3
\* Calls of paint_text_cursor in one behaviour.
MaxCalls == 2
\* The longest on_duration and off_duration, in f32 steps.
MaxDuration == 2
\* The longest time_since_last_interaction, in f64 steps.
MaxTime == 12
\* The f64 steps in one f32 step: how much finer an f64 time is than an f32 one.
F32Step == 2
\* Window events sent to one State.
MaxEvents == 2
\* Calls of take_egui_input on one State.
MaxTakes == 2
\* Calls of handle_platform_output and of process_viewport_commands on one window.
MaxOutputs == 3
\* Ime events a window sends to one State.
MaxImes == 4

----------------------------------------------------------------------------
(* Sequences with 0-based positions, as Rust's Vec and slices. *)

Get(s, i) == s[i + 1]

Set(s, i, v) == [s EXCEPT ![i + 1] = v]

RECURSIVE SeqsUpTo(_, _)
\* The sequences over S of length 1..n.
SeqsUpTo(S, n) ==
    IF n = 0 THEN {}
    ELSE SeqsUpTo(S, n - 1) \cup [1..n -> S]

\* slice::swap
Swap(s, i, j) == [s EXCEPT ![i + 1] = s[j + 1], ![j + 1] = s[i + 1]]

Range(s) == {s[k] : k \in 1..Len(s)}

MinOf(S) == CHOOSE x \in S : \A y \in S : x <= y

MaxOf(S) == CHOOSE x \in S : \A y \in S : x >= y

----------------------------------------------------------------------------
(* Geometry: Rect, Mesh. *)

pos2(x, y) == <<x, y>>

Rect_from_min_max(min, max) == [min |-> min, max |-> max]

\* Stand-in for f32::INFINITY: larger than every coordinate of the model.
INFINITY == 1000 * 1000

\* Rect::NOTHING, the bounds of an empty mesh.
Rect_NOTHING == [min |-> pos2(INFINITY, INFINITY), max |-> pos2(-INFINITY, -INFINITY)]

EmptyMesh == [indices |-> <<>>, vertices |-> <<>>]

Vertex(p, color) == [pos |-> p, color |-> color]

\* Mesh::add_colored_rect: four vertices (left-top, right-top, left-bottom,
\* right-bottom) and two triangles over them.
add_colored_rect(mesh, rect, color) ==
    LET idx == Len(mesh.vertices)
    IN  [indices  |-> mesh.indices \o <<idx, idx + 1, idx + 2, idx + 2, idx + 1, idx + 3>>,
         vertices |-> mesh.vertices \o
                      << Vertex(pos2(rect.min[1], rect.min[2]), color),
                         Vertex(pos2(rect.max[1], rect.min[2]), color),
                         Vertex(pos2(rect.min[1], rect.max[2]), color),
                         Vertex(pos2(rect.max[1], rect.max[2]), color) >>]

\* Mesh::calc_bounds: the bounding box of all vertices.
calc_bounds(mesh) ==
    IF mesh.vertices = <<>> THEN Rect_NOTHING
    ELSE LET xs == {mesh.vertices[k].pos[1] : k \in 1..Len(mesh.vertices)}
             ys == {mesh.vertices[k].pos[2] : k \in 1..Len(mesh.vertices)}
         IN  [min |-> pos2(MinOf(xs), MinOf(ys)), max |-> pos2(MaxOf(xs), MaxOf(ys))]

----------------------------------------------------------------------------
(* Rows as the text layout produces them. *)

\* The colours of the model: what kind of triangle a vertex belongs to.
BackgroundColor == "background"
TextColor == "text"
\* visuals.selection.bg_fill
selection_bg_fill == "selection.bg_fill"

RECURSIVE TessellateGlyphs(_, _, _, _, _)
\* One quad per glyph, from the glyph's x to the next glyph's x (or the row's end).
TessellateGlyphs(mesh, xs, k, width, height) ==
    IF k > Len(xs) THEN mesh
    ELSE LET right == IF k < Len(xs) THEN xs[k + 1] ELSE width
         IN  TessellateGlyphs(
                 add_colored_rect(mesh,
                                  Rect_from_min_max(pos2(xs[k], 0), pos2(right, height)),
                                  TextColor),
                 xs, k + 1, width, height)

\* Mesh::add_triangle with its three vertices: a text decoration drawn after
\* the glyphs (an underline), as one triangle under the row.
add_underline(mesh, width, height) ==
    LET idx == Len(mesh.vertices)
    IN  [indices  |-> mesh.indices \o <<idx, idx + 1, idx + 2>>,
         vertices |-> mesh.vertices \o
                      << Vertex(pos2(0, height), TextColor),
                         Vertex(pos2(width, height), TextColor),
                         Vertex(pos2(width, height + 1), TextColor) >>]

\* The mesh of a row: the glyph quads after the background, then the underline.
TessellateRow(bg, xs, width, height, underline) ==
    IF underline
    THEN add_underline(TessellateGlyphs(bg, xs, 1, width, height), width, height)
    ELSE TessellateGlyphs(bg, xs, 1, width, height)

\* The row with its visuals: glyph_index_start is the length of the index
\* buffer when the background is done.
RowOf(xs, width, height, newline, bg, mesh) ==
    [size              |-> <<width, height>>,
     ends_with_newline |-> newline,
     glyphs            |-> xs,
     visuals           |-> [mesh              |-> mesh,
                            glyph_index_start |-> Len(bg.indices),
                            mesh_bounds       |-> calc_bounds(mesh)]]

\* The mesh when the background of a row is done.
Background(width, height, background) ==
    IF background
    THEN add_colored_rect(EmptyMesh, Rect_from_min_max(pos2(0, 0), pos2(width, height)),
                          BackgroundColor)
    ELSE EmptyMesh

\* A laid-out row: an optional background quad, then glyph_index_start, then
\* the glyph quads and an optional underline.
LayoutRow(xs, width, height, newline, background, underline) ==
    RowOf(xs, width, height, newline, Background(width, height, background),
          TessellateRow(Background(width, height, background), xs, width, height, underline))

\* The rows the model lays out: a wrapped, underlined row of width 100, a row
\* of width 40 that ends with a newline and has a background, and an empty line.
RowTemplates ==
    { LayoutRow(<<0, 30, 50>>, 100, 20, FALSE, FALSE, TRUE),
      LayoutRow(<<0, 20>>, 40, 20, TRUE, TRUE, FALSE),
      LayoutRow(<<>>, 0, 20, TRUE, FALSE, FALSE) }

\* Row::x_offset
x_offset(row, column) ==
    IF column < Len(row.glyphs) THEN Get(row.glyphs, column) ELSE row.size[1]

\* Row::height
height(row) == row.size[2]

char_count_excluding_newline(row) == Len(row.glyphs)

char_count_including_newline(row) == Len(row.glyphs) + (IF row.ends_with_newline THEN 1 ELSE 0)

----------------------------------------------------------------------------
(* Cursors. *)

CCursor(index, prefer_next_row) == [index |-> index, prefer_next_row |-> prefer_next_row]

CCursorRange(primary, secondary) == [primary |-> primary, secondary |-> secondary]

\* CCursorRange::is_empty: CCursor's equality compares the index alone.
is_empty(cursor_range) == cursor_range.primary.index = cursor_range.secondary.index

\* CCursorRange::sorted_cursors
sorted_cursors(cursor_range) ==
    IF cursor_range.primary.index <= cursor_range.secondary.index
    THEN <<cursor_range.primary, cursor_range.secondary>>
    ELSE <<cursor_range.secondary, cursor_range.primary>>

LayoutCursor(row, column) == [row |-> row, column |-> column]

RECURSIVE layout_scan(_, _, _, _)
\* The loop of Galley::layout_from_cursor: row_nr is the row looked at and it
\* the character index of its first character.
layout_scan(rows, cursor, row_nr, it) ==
    IF row_nr >= Len(rows)
    THEN LayoutCursor(Len(rows) - 1,
                      char_count_including_newline(Get(rows, Len(rows) - 1)))
    ELSE LET row    == Get(rows, row_nr)
             count  == char_count_excluding_newline(row)
             column == cursor.index - it
             select_next_row_instead ==
                 /\ cursor.prefer_next_row
                 /\ ~row.ends_with_newline
                 /\ column >= count
         IN  IF it <= cursor.index /\ cursor.index <= it + count /\ ~select_next_row_instead
             THEN LayoutCursor(row_nr, column)
             ELSE layout_scan(rows, cursor, row_nr + 1,
                              it + char_count_including_newline(row))

\* Galley::layout_from_cursor, on the rows of the galley.
layout_from_cursor(rows, cursor) == layout_scan(rows, cursor, 0, 0)

RECURSIVE SumChars(_, _)
SumChars(rows, k) ==
    IF k > Len(rows) THEN 0 ELSE char_count_including_newline(rows[k]) + SumChars(rows, k + 1)

\* The character index of Galley::end.
EndIndex(rows) == SumChars(rows, 1)

----------------------------------------------------------------------------
(* Shared ownership: Arc<Galley> and Arc<Row>. *)

\* The rows of Galley object g, dereferenced.
Rows(gh, rh, g) == [k \in 1..Len(gh[g].rows) |-> rh[gh[g].rows[k]]]

\* Arc::strong_count of Galley object g: the caller's handle and the others'.
galley_is_unique(g) == g \notin otherGalleys

\* Whether the caller's galley holds the only handle to Row object r: no other
\* live Galley lists it and no other owner holds it.
row_is_unique(r) ==
    /\ r \notin otherRows
    /\ \A g \in otherGalleys : r \notin Range(galleyHeap[g].rows)

----------------------------------------------------------------------------
(* paint_text_selection.  The state it works on is                         *)
(*   [rowHeap, rows, sink]: the Row objects, the Arc<Row> of each row of   *)
(*   the (exclusively owned) galley, and the output Vec; and `panicked`,   *)
(*   set when an assertion or a bounds check of the call failed: the call  *)
(*   unwinds from there and the state is left as it was at that point.     *)

\* No early return.
early_return_never(cursor_range) == FALSE

\* `if cursor_range.is_empty() { return; }`
early_return(cursor_range) == is_empty(cursor_range)

\* `Arc::make_mut(galley)`: the caller's handle afterwards points to a Galley
\* nobody else holds, a clone of the old one (with clones of its Arc<Row>s) when
\* that was shared.
make_mut_galley(gh, g) ==
    IF galley_is_unique(g)
    THEN [galleyHeap |-> gh, galley |-> g]
    ELSE [galleyHeap |-> Append(gh, gh[g]), galley |-> Len(gh) + 1]

\* The row written through its Arc whoever else holds it (Arc::get_mut_unchecked).
make_mut_row_in_place(st, ri) == st

\* `Arc::make_mut(&mut galley.rows[ri].row)`: row ri of the galley afterwards
\* is a Row nobody else holds, a clone of the old one when that was shared.
make_mut_row(st, ri) ==
    LET r == Get(st.rows, ri)
    IN  IF row_is_unique(r)
        THEN st
        ELSE [st EXCEPT !.rowHeap = Append(st.rowHeap, st.rowHeap[r]),
                        !.rows    = Set(st.rows, ri, Len(st.rowHeap) + 1)]

\* The range begun at the first row of the galley: `0..=max.row`.
row_range_from_first(min, max) == 0 .. max.row

\* The range without its last row: `min.row..max.row`.
row_range_exclusive(min, max) == min.row .. (max.row - 1)

\* `for ri in min.row..=max.row`
row_range(min, max) == min.row .. max.row

\* The left edge without `ri == min.row`: min's column on every row.
left_edge_every_row(row, ri, min) == x_offset(row, min.column)

\* `let left = if ri == min.row { row.x_offset(min.column) } else { 0.0 }`
left_edge(row, ri, min) ==
    IF ri = min.row THEN x_offset(row, min.column) ELSE 0

\* The sliver without `row.ends_with_newline`.
newline_size_always(row) == height(row) \div 2

\* `let newline_size = if row.ends_with_newline { row.height() / 2.0 } else { 0.0 }`
newline_size(row) ==
    IF row.ends_with_newline THEN height(row) \div 2 ELSE 0

\* `let right = if ri == max.row { row.x_offset(max.column) } else { row.size.x + newline_size }`
right_edge(row, ri, max) ==
    IF ri = max.row THEN x_offset(row, max.column) ELSE row.size[1] + newline_size(row)

\* The six indices before the new ones: `mesh.indices[num_indices_before - 6]`, ...
selection_triangles_stale(indices, num_indices_before) ==
    [k \in 1..6 |-> Get(indices, num_indices_before - 6 + k - 1)]

\* `let selection_triangles = [mesh.indices[num_indices_before], ...]`
selection_triangles(indices, num_indices_before) ==
    [k \in 1..6 |-> Get(indices, num_indices_before + k - 1)]

RECURSIVE swap_upwards(_, _, _)
swap_upwards(indices, i, end) ==
    IF i >= end THEN indices
    ELSE swap_upwards(Swap(indices, i, i + 6), i + 1, end)

\* The loop without `.rev()`: the positions are visited from glyph_index_start up.
move_old_triangles_forwards(indices, glyph_index_start, end) ==
    swap_upwards(indices, glyph_index_start, end)

RECURSIVE move_old_triangles(_, _, _)
\* `for i in (glyph_index_start..num_indices_before).rev() { mesh.indices.swap(i, i + 6); }`
\* The third argument is the (exclusive) upper end of the positions still to visit.
move_old_triangles(indices, glyph_index_start, end) ==
    IF end <= glyph_index_start THEN indices
    ELSE move_old_triangles(Swap(indices, end - 1, end - 1 + 6), glyph_index_start, end - 1)

\* `mesh.indices[glyph_index_start..glyph_index_start + 6].clone_from_slice(&selection_triangles)`
put_in_place(indices, glyph_index_start, triangles) ==
    [k \in 1..Len(indices) |->
        IF glyph_index_start < k /\ k <= glyph_index_start + 6
        THEN triangles[k - glyph_index_start]
        ELSE indices[k]]

\* struct RowVertexIndices
RowVertexIndices(row, vertex_indices) == [row |-> row, vertex_indices |-> vertex_indices]

\* The record put in front: `insert(0, ..)` for `push(..)`.
push_record_in_front(new_vertex_indices, with_sink, ri, triangles) ==
    IF with_sink
    THEN <<RowVertexIndices(ri, triangles)>> \o new_vertex_indices
    ELSE new_vertex_indices

\* `if let Some(new_vertex_indices) = &mut new_vertex_indices { new_vertex_indices.push(..) }`
push_record(new_vertex_indices, with_sink, ri, triangles) ==
    IF with_sink
    THEN Append(new_vertex_indices, RowVertexIndices(ri, triangles))
    ELSE new_vertex_indices

\* `let rect = Rect::from_min_max(pos2(left, 0.0), pos2(right, row.size.y))`
selection_rect(row, ri, min, max) ==
    Rect_from_min_max(pos2(left_edge(row, ri, min), 0), pos2(right_edge(row, ri, max), row.size[2]))

\* The row with its new mesh and bounds, and the triangles that were inserted.
set_mesh(row, mesh, triangles) ==
    [row       |-> [row EXCEPT !.visuals.mesh = mesh,
                               !.visuals.mesh_bounds = calc_bounds(mesh)],
     triangles |-> triangles,
     panicked  |-> FALSE]

\* A panic after add_colored_rect: the rectangle is in the mesh, nothing else
\* was done to the row.
panic_after_add(row, added) ==
    [row       |-> [row EXCEPT !.visuals.mesh = added],
     triangles |-> <<>>,
     panicked  |-> TRUE]

\* The assertion with 4 for 6.
assert_four_new_indices(num_indices_before, indices) ==
    num_indices_before + 4 = Len(indices)

\* `assert_eq!(num_indices_before + 6, mesh.indices.len(), "We expect exactly 6 new indices")`
assert_six_new_indices(num_indices_before, indices) ==
    num_indices_before + 6 = Len(indices)

\* The bounds check of `mesh.indices[from..to]`.
slice_in_bounds(indices, from, to) == from <= to /\ to <= Len(indices)

\* The rectangle left where add_colored_rect appended it: nothing is moved.
place_at_end(row, added, triangles) == set_mesh(row, added, triangles)

\* The old triangles from glyph_index_start on move up by 6 and the new ones
\* take their place; `added` is the mesh with the rectangle appended.
place(row, added, triangles) ==
    IF slice_in_bounds(added.indices, row.visuals.glyph_index_start,
                       row.visuals.glyph_index_start + 6)
    THEN set_mesh(row,
                  [added EXCEPT !.indices =
                      put_in_place(move_old_triangles(added.indices,
                                                      row.visuals.glyph_index_start,
                                                      Len(row.visuals.mesh.indices)),
                                   row.visuals.glyph_index_start,
                                   triangles)],
                  triangles)
    ELSE panic_after_add(row, added)

\* `num_indices_before = mesh.indices.len()`, and the copy of the new triangles.
splice(row, added) ==
    IF assert_six_new_indices(Len(row.visuals.mesh.indices), added.indices)
    THEN place(row, added, selection_triangles(added.indices, Len(row.visuals.mesh.indices)))
    ELSE panic_after_add(row, added)

\* `mesh.add_colored_rect(rect, color)` and what follows it, on one row.
insert_rect(row, ri, min, max) ==
    splice(row, add_colored_rect(row.visuals.mesh, selection_rect(row, ri, min, max),
                                 selection_bg_fill))

\* The painted row is written through the (exclusive) Arc<Row> and its record pushed.
store_row(st, ri, with_sink, res) ==
    [rowHeap  |-> [st.rowHeap EXCEPT ![Get(st.rows, ri)] = res.row],
     rows     |-> st.rows,
     sink     |-> IF res.panicked THEN st.sink
                  ELSE push_record(st.sink, with_sink, ri, res.triangles),
     panicked |-> res.panicked]

\* The body of the loop once row ri is exclusively owned.
paint_unique_row(st, ri, min, max, with_sink) ==
    store_row(st, ri, with_sink, insert_rect(st.rowHeap[Get(st.rows, ri)], ri, min, max))

\* The body of the loop, for row ri.
paint_row(st, ri, min, max, with_sink) ==
    IF ri < Len(st.rows)
    THEN paint_unique_row(make_mut_row(st, ri), ri, min, max, with_sink)
    ELSE [st EXCEPT !.panicked = TRUE]

RECURSIVE paint_rows(_, _, _, _, _)
\* The loop over the rows still to paint, in ascending order.
paint_rows(st, todo, min, max, with_sink) ==
    IF todo = {} \/ st.panicked THEN st
    ELSE paint_rows(paint_row(st, MinOf(todo), min, max, with_sink),
                    todo \ {MinOf(todo)}, min, max, with_sink)

\* What the call record keeps of a call: whether the range was empty, whether
\* it got a Vec, the cursors as resolved (when they were), and the state before
\* it; and of all the calls so far: their number, the rows as the layout made
\* them, and how many calls had each row in their range.
CallRecord(empty, with_sink, min, max) ==
    [called     |-> TRUE,
     empty      |-> empty,
     with_sink  |-> with_sink,
     min        |-> min,
     max        |-> max,
     pre_rows   |-> Rows(galleyHeap, rowHeap, galley),
     pre_galley |-> galley,
     pre_heap   |-> <<Len(galleyHeap), Len(rowHeap)>>,
     pre_sink   |-> sink,
     panicked   |-> FALSE,
     paints     |-> call.paints + 1,
     original   |-> IF call.called THEN call.original
                    ELSE Rows(galleyHeap, rowHeap, galley),
     highlights |-> [k \in 1..Len(galleyHeap[galley].rows) |->
                        (IF call.called THEN call.highlights[k] ELSE 0)
                        + (IF ~empty /\ (k - 1) \in min.row .. max.row THEN 1 ELSE 0)]]

NoCall ==
    [called     |-> FALSE,
     empty      |-> FALSE,
     with_sink  |-> FALSE,
     min        |-> LayoutCursor(0, 0),
     max        |-> LayoutCursor(0, 0),
     pre_rows   |-> <<>>,
     pre_galley |-> 0,
     pre_heap   |-> <<0, 0>>,
     pre_sink   |-> <<>>,
     panicked   |-> FALSE,
     paints     |-> 0,
     original   |-> <<>>,
     highlights |-> <<>>]

\* The caller's galley and Vec after the loop, or after the panic that ended it.
commit(mm, record, st) ==
    /\ call' = [record EXCEPT !.panicked = st.panicked]
    /\ galley' = mm.galley
    /\ galleyHeap' = [mm.galleyHeap EXCEPT ![mm.galley].rows = st.rows]
    /\ rowHeap' = st.rowHeap
    /\ sink' = st.sink

\* The loop, with min and max resolved.
paint_resolved(mm, cursor_range, min, max, with_sink) ==
    commit(mm, CallRecord(is_empty(cursor_range), with_sink, min, max),
           paint_rows([rowHeap  |-> rowHeap,
                       rows     |-> mm.galleyHeap[mm.galley].rows,
                       sink     |-> sink,
                       panicked |-> FALSE],
                      row_range(min, max), min, max, with_sink))

\* `let min = galley.layout_from_cursor(min); let max = galley.layout_from_cursor(max);`
paint_sorted(mm, cursor_range, c, with_sink) ==
    paint_resolved(mm, cursor_range,
                   layout_from_cursor(Rows(mm.galleyHeap, rowHeap, mm.galley), c[1]),
                   layout_from_cursor(Rows(mm.galleyHeap, rowHeap, mm.galley), c[2]),
                   with_sink)

\* paint_text_selection(galley, visuals, cursor_range, new_vertex_indices)
paint_text_selection(cursor_range, with_sink) ==
    /\ IF early_return(cursor_range)
       THEN /\ call' = CallRecord(is_empty(cursor_range), with_sink,
                                   LayoutCursor(0, 0), LayoutCursor(0, 0))
            /\ UNCHANGED <<galleyHeap, rowHeap, galley, sink>>
       ELSE paint_sorted(make_mut_galley(galleyHeap, galley), cursor_range,
                         sorted_cursors(cursor_range), with_sink)
    /\ UNCHANGED <<otherGalleys, otherRows, observed>>

\* The cursor positions a caller passes: any character position of the galley,
\* with either row preference.
Cursors == { CCursor(i, p) : i \in 0..EndIndex(Rows(galleyHeap, rowHeap, galley)), p \in BOOLEAN }

\* One call on the galley as the layout made it.
PaintTextSelection ==
    /\ ~call.called
    /\ \E primary \in Cursors, secondary \in Cursors, with_sink \in BOOLEAN :
           paint_text_selection(CCursorRange(primary, secondary), with_sink)
    /\ UNCHANGED curVars
    /\ UNCHANGED winVars

\* A further call on the galley earlier calls painted.
PaintTextSelectionAgain ==
    /\ call.called
    /\ call.paints < MaxPaints
    /\ \E primary \in Cursors, secondary \in Cursors, with_sink \in BOOLEAN :
           paint_text_selection(CCursorRange(primary, secondary), with_sink)
    /\ UNCHANGED curVars
    /\ UNCHANGED winVars

----------------------------------------------------------------------------
(* The other owners of the galley and of its rows. *)

\* An owner of the Galley drops its handle.
DropGalley ==
    /\ \E g \in otherGalleys :
           /\ otherGalleys' = otherGalleys \ {g}
           /\ observed' = [observed EXCEPT !.galleys = [x \in otherGalleys' |-> @[x]]]
    /\ UNCHANGED <<galleyHeap, rowHeap, galley, otherRows, sink, call>>
    /\ UNCHANGED curVars
    /\ UNCHANGED winVars

\* An owner of a Row drops its handle.
DropRow ==
    /\ \E r \in otherRows :
           /\ otherRows' = otherRows \ {r}
           /\ observed' = [observed EXCEPT !.rows = [x \in otherRows' |-> @[x]]]
    /\ UNCHANGED <<galleyHeap, rowHeap, galley, otherGalleys, sink, call>>
    /\ UNCHANGED curVars
    /\ UNCHANGED winVars

----------------------------------------------------------------------------
(* The text cursor.  time_since_last_interaction is f64 seconds and the    *)
(* durations are f32 seconds.  The model counts every time in f64 steps, a *)
(* binary fraction of a second; an f32 holds the multiples of F32Step      *)
(* only, and `as f32` rounds to the nearest of them, a tie to the even     *)
(* one.  The grid is uniform, where that of the floats is finer near       *)
(* zero.  The remainder of two grid values is exact, as fmod is; so are    *)
(* the sum and the differences of f32 values here.  The durations are      *)
(* never both zero and no time is negative: the remainder by a zero cycle  *)
(* (NaN) is outside the model.                                             *)

\* visuals.text_cursor.stroke
CursorStroke == [width |-> "text_cursor.stroke.width", color |-> "text_cursor.stroke.color"]

\* Rect::center_top, Rect::center_bottom
center_top(rect) == pos2((rect.min[1] + rect.max[1]) \div 2, rect.min[2])

center_bottom(rect) == pos2((rect.min[1] + rect.max[1]) \div 2, rect.max[2])

\* Painter::line_segment
line_segment(shapes, points, stroke) ==
    Append(shapes, [points |-> points, width |-> stroke[1], color |-> stroke[2]])

\* `if true {`: the roof and the floor drawn.
roof_and_floor_drawn == TRUE

\* `if false {`: the roof and the floor of the cursor are compiled out.
roof_and_floor == FALSE

\* paint_cursor_end(painter, visuals, cursor_rect)
paint_cursor_end(shapes, visuals, cursor_rect) ==
    LET stroke == visuals.stroke
        top    == center_top(cursor_rect)
        bottom == center_bottom(cursor_rect)
        line   == line_segment(shapes, <<top, bottom>>, <<stroke.width, stroke.color>>)
    IN  IF roof_and_floor
        THEN line_segment(
                 line_segment(line,
                              <<pos2(top[1] - 3, top[2]), pos2(top[1] + 3, top[2])>>,
                              <<"1.0", stroke.color>>),
                 <<pos2(bottom[1] - 3, bottom[2]), pos2(bottom[1] + 3, bottom[2])>>,
                 <<"1.0", stroke.color>>)
        ELSE line

\* `.. as f32` of an f64 that is not negative: the nearest f32, a tie to the even one.
as_f32(x) ==
    IF 2 * (x % F32Step) < F32Step THEN (x \div F32Step) * F32Step
    ELSE IF 2 * (x % F32Step) > F32Step THEN (x \div F32Step + 1) * F32Step
    ELSE IF (x \div F32Step) % 2 = 0 THEN (x \div F32Step) * F32Step
    ELSE (x \div F32Step + 1) * F32Step

\* The time taken as it is, the cycle forgotten.
time_in_cycle_unwrapped(time_since_last_interaction, total_duration) ==
    as_f32(time_since_last_interaction)

\* `(time_since_last_interaction % (total_duration as f64)) as f32`
time_in_cycle(time_since_last_interaction, total_duration) ==
    as_f32(time_since_last_interaction % total_duration)

\* `<=` for `<`.
cursor_is_visible_inclusive(in_cycle, on_duration) == in_cycle <= on_duration

\* `if time_in_cycle < on_duration`
cursor_is_visible(in_cycle, on_duration) == in_cycle < on_duration

\* The end of the cycle awaited in both sub-intervals.
wake_in_cycle_end(in_cycle, on_duration, total_duration) ==
    total_duration - in_cycle

\* `let wake_in = if .. { on_duration - time_in_cycle } else { total_duration - time_in_cycle }`
wake_in(in_cycle, on_duration, total_duration) ==
    IF cursor_is_visible(in_cycle, on_duration)
    THEN on_duration - in_cycle
    ELSE total_duration - in_cycle

\* `if ui.visuals().text_cursor.blink`
blinking(visuals) == visuals.blink

\* The branch of paint_text_cursor that blinks.
paint_blinking(rect, in_cycle, on_duration, total_duration) ==
    /\ painter' = IF cursor_is_visible(in_cycle, on_duration)
                  THEN paint_cursor_end(painter, text_cursor, rect)
                  ELSE painter
    /\ repaints' = Append(repaints, wake_in(in_cycle, on_duration, total_duration))

\* paint_text_cursor(ui, painter, primary_cursor_rect, time_since_last_interaction)
paint_text_cursor(primary_cursor_rect, time_since_last_interaction) ==
    /\ IF blinking(text_cursor)
       THEN paint_blinking(primary_cursor_rect,
                           time_in_cycle(time_since_last_interaction,
                                         text_cursor.on_duration + text_cursor.off_duration),
                           text_cursor.on_duration,
                           text_cursor.on_duration + text_cursor.off_duration)
       ELSE /\ painter' = paint_cursor_end(painter, text_cursor, primary_cursor_rect)
            /\ UNCHANGED repaints
    /\ blink' = [called       |-> TRUE,
                 calls        |-> blink.calls + 1,
                 rect         |-> primary_cursor_rect,
                 time         |-> time_since_last_interaction,
                 pre_painter  |-> painter,
                 pre_repaints |-> repaints,
                 log          |-> Append(blink.log,
                                         [time |-> time_since_last_interaction,
                                          drew |-> Len(painter') > Len(painter)])]
    /\ UNCHANGED text_cursor

NoBlink ==
    [called       |-> FALSE,
     calls        |-> 0,
     rect         |-> Rect_from_min_max(pos2(0, 0), pos2(0, 0)),
     time         |-> 0,
     pre_painter  |-> <<>>,
     pre_repaints |-> <<>>,
     log          |-> <<>>]

\* The cursor rectangles a caller passes.
CursorRects ==
    { Rect_from_min_max(pos2(10, 0), pos2(12, 20)),
      Rect_from_min_max(pos2(40, 20), pos2(42, 40)) }

PaintTextCursor ==
    /\ blink.calls < MaxCalls
    /\ \E rect \in CursorRects, time \in 0..MaxTime : paint_text_cursor(rect, time)
    /\ UNCHANGED selVars
    /\ UNCHANGED winVars

----------------------------------------------------------------------------
(* egui-winit (crates/egui-winit/src/lib.rs): State, which turns the       *)
(* events of a winit window into the egui events of RawInput and the       *)
(* output of egui into calls on the window.  An Option is a sequence of at *)
(* most one value.  Positions are f32 points; the model's pixel positions  *)
(* are multiples of pixels_per_point, so that the division is exact.  The  *)
(* clock (RawInput::time) and the viewports map are not in the model.      *)

None == <<>>

Some(x) == <<x>>

is_some(option) == option # None

is_none(option) == option = None

\* Option<u64>::unwrap_or_default
unwrap_or_default(option) == IF is_some(option) THEN option[1] ELSE 0

\* egui::Modifiers::default()
Modifiers_default ==
    [alt |-> FALSE, ctrl |-> FALSE, shift |-> FALSE, mac_cmd |-> FALSE, command |-> FALSE]

\* State::new
State_new ==
    [egui_input              |-> [events      |-> <<>>,
                                  modifiers   |-> Modifiers_default,
                                  focused     |-> FALSE,
                                  screen_rect |-> None],
     pointer_pos_in_points   |-> None,
     any_pointer_button_down |-> FALSE,
     current_cursor_icon     |-> None,
     clipboard               |-> None,
     simulate_touch_screen   |-> FALSE,
     pointer_touch_id        |-> None,
     has_sent_ime_enabled    |-> FALSE,
     allow_ime               |-> FALSE,
     ime_rect_px             |-> None]

\* pixels_per_point(egui_ctx, window)
pixels_per_point(ctx, win) == ctx.zoom_factor * win.scale_factor

\* `self.egui_input.events.push(..)`
push(s, event) == [s EXCEPT !.egui_input.events = Append(@, event)]

\* egui::Event
Event_PointerGone == [type |-> "PointerGone"]

Event_PointerMoved(pos) == [type |-> "PointerMoved", pos |-> pos]

Event_PointerButton(pos, button, pressed, modifiers) ==
    [type |-> "PointerButton", pos |-> pos, button |-> button, pressed |-> pressed,
     modifiers |-> modifiers]

Event_Touch(device_id, id, phase, pos, force) ==
    [type |-> "Touch", device_id |-> device_id, id |-> id, phase |-> phase, pos |-> pos,
     force |-> force]

Event_Ime(ime) == [type |-> "Ime", ime |-> ime]

Event_Key(key, physical_key, pressed, modifiers) ==
    [type |-> "Key", key |-> key, physical_key |-> physical_key, pressed |-> pressed,
     repeat |-> FALSE, modifiers |-> modifiers]

Event_Text(text) == [type |-> "Text", text |-> text]

Event_WindowFocused(focused) == [type |-> "WindowFocused", focused |-> focused]

\* ImeEvent::Enabled pushed whether it was sent before or not.
ime_event_enable_each_time(s) ==
    [push(s, Event_Ime([kind |-> "Enabled", text |-> ""]))
        EXCEPT !.has_sent_ime_enabled = TRUE]

\* State::ime_event_enable
ime_event_enable(s) ==
    IF ~s.has_sent_ime_enabled
    THEN [push(s, Event_Ime([kind |-> "Enabled", text |-> ""]))
             EXCEPT !.has_sent_ime_enabled = TRUE]
    ELSE s

\* ImeEvent::Disabled pushed and has_sent_ime_enabled left as it was.
ime_event_disable_flag_kept(s) == push(s, Event_Ime([kind |-> "Disabled", text |-> ""]))

\* State::ime_event_disable
ime_event_disable(s) ==
    [push(s, Event_Ime([kind |-> "Disabled", text |-> ""]))
        EXCEPT !.has_sent_ime_enabled = FALSE]

\* translate_mouse_button
translate_mouse_button(button) ==
    CASE button = "Left"    -> Some("Primary")
      [] button = "Right"   -> Some("Secondary")
      [] button = "Middle"  -> Some("Middle")
      [] button = "Back"    -> Some("Extra1")
      [] button = "Forward" -> Some("Extra2")
      [] OTHER              -> None

\* The touch that simulate_touch_screen makes of the mouse.
simulated_touch(phase, pos) == Event_Touch("TouchDeviceId(0)", 0, phase, pos, None)

\* State::on_mouse_button_input, once the pointer is in the window and the
\* button is one egui knows.
push_pointer_button(s, pos, button, pressed) ==
    IF s.simulate_touch_screen
    THEN IF pressed
         THEN push([push(s, Event_PointerButton(pos, button, pressed, s.egui_input.modifiers))
                       EXCEPT !.any_pointer_button_down = TRUE],
                   simulated_touch("Start", pos))
         ELSE push(push([push(s, Event_PointerButton(pos, button, pressed,
                                                     s.egui_input.modifiers))
                            EXCEPT !.any_pointer_button_down = FALSE],
                        Event_PointerGone),
                   simulated_touch("End", pos))
    ELSE push(s, Event_PointerButton(pos, button, pressed, s.egui_input.modifiers))

\* State::on_mouse_button_input
on_mouse_button_input(s, element_state, button) ==
    IF is_some(s.pointer_pos_in_points) /\ is_some(translate_mouse_button(button))
    THEN push_pointer_button(s, s.pointer_pos_in_points[1], translate_mouse_button(button)[1],
                             element_state = "Pressed")
    ELSE s

\* State::on_cursor_moved, the position already in points.
move_pointer(s, pos_in_points) ==
    IF s.simulate_touch_screen
    THEN IF s.any_pointer_button_down
         THEN push(push([s EXCEPT !.pointer_pos_in_points = Some(pos_in_points)],
                        Event_PointerMoved(pos_in_points)),
                   simulated_touch("Move", pos_in_points))
         ELSE [s EXCEPT !.pointer_pos_in_points = Some(pos_in_points)]
    ELSE push([s EXCEPT !.pointer_pos_in_points = Some(pos_in_points)],
              Event_PointerMoved(pos_in_points))

\* `egui::pos2(pos_in_pixels.x as f32 / pixels_per_point, ..)`
in_points(ppp, pos_in_pixels) == pos2(pos_in_pixels[1] \div ppp, pos_in_pixels[2] \div ppp)

\* State::on_cursor_moved
on_cursor_moved(s, ppp, pos_in_pixels) == move_pointer(s, in_points(ppp, pos_in_pixels))

\* `phase: match touch.phase { .. }`
touch_phase(phase) ==
    CASE phase = "Started"   -> "Start"
      [] phase = "Moved"     -> "Move"
      [] phase = "Ended"     -> "End"
      [] phase = "Cancelled" -> "Cancel"

\* `force: match touch.force { .. }`
touch_force(force) ==
    IF is_none(force) THEN None
    ELSE IF force[1].kind = "Normalized" THEN Some(force[1].force)
    ELSE Some(force[1].force \div force[1].max_possible_force)

\* Every touch is taken for the pointer.
translates_every_touch(pointer_touch_id, id) == TRUE

\* `if self.pointer_touch_id.is_none() || self.pointer_touch_id.unwrap_or_default() == touch.id`
translates_touch(pointer_touch_id, id) ==
    is_none(pointer_touch_id) \/ unwrap_or_default(pointer_touch_id) = id

\* `match touch.phase { .. }`: the touch emulates the mouse.
touch_as_pointer(s, ppp, touch) ==
    CASE touch.phase = "Started" ->
             on_mouse_button_input(
                 on_cursor_moved([s EXCEPT !.pointer_touch_id = Some(touch.id)],
                                 ppp, touch.location),
                 "Pressed", "Left")
      [] touch.phase = "Moved" ->
             on_cursor_moved(s, ppp, touch.location)
      [] touch.phase = "Ended" ->
             push([on_mouse_button_input([s EXCEPT !.pointer_touch_id = None],
                                         "Released", "Left")
                      EXCEPT !.pointer_pos_in_points = None],
                  Event_PointerGone)
      [] touch.phase = "Cancelled" ->
             push([s EXCEPT !.pointer_touch_id = None, !.pointer_pos_in_points = None],
                  Event_PointerGone)

\* `egui::TouchDeviceId(egui::epaint::util::hash(touch.device_id))`
TouchDeviceId(device_id) == [hash |-> device_id]

\* State::on_touch
on_touch(s, ppp, touch) ==
    IF translates_touch(s.pointer_touch_id, touch.id)
    THEN touch_as_pointer(
             push(s, Event_Touch(TouchDeviceId(touch.device_id), touch.id,
                                 touch_phase(touch.phase), in_points(ppp, touch.location),
                                 touch_force(touch.force))),
             ppp, touch)
    ELSE push(s, Event_Touch(TouchDeviceId(touch.device_id), touch.id,
                             touch_phase(touch.phase), in_points(ppp, touch.location),
                             touch_force(touch.force)))

\* key_from_named_key, for the named keys of the model.
key_from_named_key(named_key) ==
    IF named_key \in {"Enter", "Tab", "Escape", "Cut", "Copy", "Paste"}
    THEN Some(named_key)
    ELSE None

\* egui::Key::from_name, for the characters of the model.
Key_from_name(str) ==
    CASE str = "a" -> Some("A")
      [] str = "x" -> Some("X")
      [] OTHER     -> None

\* key_from_winit_key
key_from_winit_key(key) ==
    CASE key.kind = "Named"     -> key_from_named_key(key.name)
      [] key.kind = "Character" -> Key_from_name(key.name)
      [] OTHER                  -> None

\* key_from_key_code, for the key codes of the model.
key_from_key_code(keycode) ==
    CASE keycode = "Tab"  -> Some("Tab")
      [] keycode = "KeyA" -> Some("A")
      [] keycode = "KeyX" -> Some("X")
      [] OTHER            -> None

\* `if let winit::keyboard::PhysicalKey::Code(keycode) = *physical_key { .. } else { None }`
physical_key_of(physical_key) ==
    IF physical_key.kind = "Code" THEN key_from_key_code(physical_key.code) ELSE None

\* Option::or
or(a, b) == IF is_some(a) THEN a ELSE b

\* is_cut_command, is_copy_command, is_paste_command
is_cut_command(target_os, modifiers, keycode) ==
    \/ keycode = "Cut"
    \/ modifiers.command /\ keycode = "X"
    \/ target_os = "windows" /\ modifiers.shift /\ keycode = "Delete"

is_copy_command(target_os, modifiers, keycode) ==
    \/ keycode = "Copy"
    \/ modifiers.command /\ keycode = "C"
    \/ target_os = "windows" /\ modifiers.ctrl /\ keycode = "Insert"

is_paste_command(target_os, modifiers, keycode) ==
    \/ keycode = "Paste"
    \/ modifiers.command /\ keycode = "V"
    \/ target_os = "windows" /\ modifiers.shift /\ keycode = "Insert"

\* winit's Key::to_text
to_text(key) ==
    CASE key.kind = "Character"                   -> Some(key.name)
      [] key.kind = "Named" /\ key.name = "Tab"   -> Some("\t")
      [] key.kind = "Named" /\ key.name = "Enter" -> Some("\r")
      [] OTHER                                    -> None

\* `!text.is_empty() && text.chars().all(is_printable_char)`, for the texts of
\* the model: one character, or none.
is_printable_text(text) == text \notin {"", "\t", "\r", "\n"}

\* `if let Some(text) = text.or_else(|| winit_logical_key.to_text()) { .. }`
push_text(s, text, pressed) ==
    IF /\ is_some(text)
       /\ is_printable_text(text[1])
       /\ pressed
       /\ ~(\/ s.egui_input.modifiers.ctrl
            \/ s.egui_input.modifiers.command
            \/ s.egui_input.modifiers.mac_cmd)
    THEN push(s, Event_Text(text[1]))
    ELSE s

Event_Paste(contents) == [type |-> "Paste", contents |-> contents]

\* `let contents = contents.replace("\r\n", "\n")`: the texts of the model are
\* of one character and hold no "\r\n".
paste(s) ==
    IF is_some(s.clipboard) /\ s.clipboard[1] # ""
    THEN push(s, Event_Paste(s.clipboard[1]))
    ELSE s

\* State::on_keyboard_input, with the keys translated.
on_translated_key(s, target_os, event, physical_key, active_key, pressed) ==
    IF is_some(active_key)
    THEN IF pressed /\ is_cut_command(target_os, s.egui_input.modifiers, active_key[1])
         THEN push(s, [type |-> "Cut"])
         ELSE IF pressed /\ is_copy_command(target_os, s.egui_input.modifiers, active_key[1])
         THEN push(s, [type |-> "Copy"])
         ELSE IF pressed /\ is_paste_command(target_os, s.egui_input.modifiers, active_key[1])
         THEN paste(s)
         ELSE push_text(push(s, Event_Key(active_key[1], physical_key, pressed,
                                          s.egui_input.modifiers)),
                        or(event.text, to_text(event.logical_key)), pressed)
    ELSE push_text(s, or(event.text, to_text(event.logical_key)), pressed)

\* State::on_keyboard_input
on_keyboard_input(s, target_os, event) ==
    on_translated_key(s, target_os, event, physical_key_of(event.physical_key),
                      or(key_from_winit_key(event.logical_key),
                         physical_key_of(event.physical_key)),
                      event.state = "Pressed")

\* EventResponse
EventResponse(repaint, consumed) == [repaint |-> repaint, consumed |-> consumed]

\* Every synthetic key event ignored.
is_ignored_key_every_synthetic(event) == event.is_synthetic

\* `if *is_synthetic && event.state == ElementState::Pressed`
is_ignored_key(event) == event.is_synthetic /\ event.event.state = "Pressed"

\* Tab as any other key.
key_consumed_when_wanted(ctx, event) == ctx.wants_keyboard_input

\* `self.egui_ctx.wants_keyboard_input() || event.logical_key == Key::Named(NamedKey::Tab)`
key_consumed(ctx, event) ==
    \/ ctx.wants_keyboard_input
    \/ event.logical_key = [kind |-> "Named", name |-> "Tab"]

\* `WindowEvent::Ime(ime) => match ime { .. }`
on_ime(s, target_os, ime) ==
    CASE ime.kind = "Enabled" ->
             IF target_os = "linux" THEN s ELSE ime_event_enable(s)
      [] ime.kind = "Preedit" /\ is_some(ime.cursor) ->
             push(ime_event_enable(s), Event_Ime([kind |-> "Preedit", text |-> ime.text]))
      [] ime.kind = "Commit" ->
             ime_event_disable(push(s, Event_Ime([kind |-> "Commit", text |-> ime.text])))
      [] OTHER ->
             ime_event_disable(s)

\* `let consumed = match touch.phase { .. }`
touch_consumed(ctx, phase) ==
    IF phase = "Moved" THEN ctx.is_using_pointer ELSE ctx.wants_pointer_input

\* `WindowEvent::ModifiersChanged(state) => { .. }`
modifiers_changed(s, target_os, keys) ==
    [s EXCEPT !.egui_input.modifiers =
        [alt     |-> keys.alt_key,
         ctrl    |-> keys.control_key,
         shift   |-> keys.shift_key,
         mac_cmd |-> target_os = "macos" /\ keys.super_key,
         command |-> IF target_os = "macos" THEN keys.super_key ELSE keys.control_key]]

\* State::on_window_event: the State afterwards and the EventResponse.  The
\* arms of ScaleFactorChanged, MouseWheel, ThemeChanged, HoveredFile,
\* HoveredFileCancelled, DroppedFile and PinchGesture are not in the model.
on_window_event(s, ctx, win, event) ==
    CASE event.type = "MouseInput" ->
             [state    |-> on_mouse_button_input(s, event.state, event.button),
              response |-> EventResponse(TRUE, ctx.wants_pointer_input)]
      [] event.type = "CursorMoved" ->
             [state    |-> on_cursor_moved(s, pixels_per_point(ctx, win), event.position),
              response |-> EventResponse(TRUE, ctx.is_using_pointer)]
      [] event.type = "CursorLeft" ->
             [state    |-> push([s EXCEPT !.pointer_pos_in_points = None], Event_PointerGone),
              response |-> EventResponse(TRUE, FALSE)]
      [] event.type = "Touch" ->
             [state    |-> on_touch(s, pixels_per_point(ctx, win), event.touch),
              response |-> EventResponse(TRUE, touch_consumed(ctx, event.touch.phase))]
      [] event.type = "Ime" ->
             [state    |-> on_ime(s, win.target_os, event.ime),
              response |-> EventResponse(TRUE, ctx.wants_keyboard_input)]
      [] event.type = "KeyboardInput" ->
             IF is_ignored_key(event)
             THEN [state |-> s, response |-> EventResponse(TRUE, FALSE)]
             ELSE [state    |-> on_keyboard_input(s, win.target_os, event.event),
                   response |-> EventResponse(TRUE, key_consumed(ctx, event.event))]
      [] event.type = "Focused" ->
             [state    |-> push([s EXCEPT !.egui_input.focused = event.focused],
                                Event_WindowFocused(event.focused)),
              response |-> EventResponse(TRUE, FALSE)]
      [] event.type = "ModifiersChanged" ->
             [state    |-> modifiers_changed(s, win.target_os, event.state),
              response |-> EventResponse(TRUE, FALSE)]
      [] event.type \in {"RedrawRequested", "CursorEntered", "Destroyed", "Occluded",
                         "Resized", "Moved", "TouchpadPressure", "CloseRequested"} ->
             [state |-> s, response |-> EventResponse(TRUE, FALSE)]
      [] event.type \in {"ActivationTokenDone", "AxisMotion", "DoubleTapGesture",
                         "RotationGesture", "PanGesture"} ->
             [state |-> s, response |-> EventResponse(FALSE, FALSE)]

\* screen_size_in_pixels(window)
screen_size_in_pixels(win) ==
    IF win.target_os = "ios" THEN win.outer_size ELSE win.inner_size

\* `(screen_size_in_points.x > 0.0 && screen_size_in_points.y > 0.0).then(|| Rect::from_min_size(..))`
screen_rect(ppp, size_in_pixels) ==
    IF size_in_pixels[1] \div ppp > 0 /\ size_in_pixels[2] \div ppp > 0
    THEN Some(Rect_from_min_max(pos2(0, 0), in_points(ppp, size_in_pixels)))
    ELSE None

\* egui::RawInput::take: what is handed out and what is left.
RawInput_take(raw_input) ==
    [taken |-> raw_input,
     left  |-> [raw_input EXCEPT !.events = <<>>, !.screen_rect = None]]

\* `self.egui_input.clone()`: the input handed out and kept as well.
take_input_kept(s, taking) == [state |-> s, returned |-> taking.taken]

\* `self.egui_input.take()`
take_input(s, taking) == [state |-> [s EXCEPT !.egui_input = taking.left], returned |-> taking.taken]

\* State::take_egui_input: the State afterwards and the RawInput returned.
take_egui_input(s, ctx, win) ==
    take_input(s, RawInput_take([s.egui_input EXCEPT !.screen_rect =
                                    screen_rect(pixels_per_point(ctx, win),
                                                screen_size_in_pixels(win))]))

\* Window::set_ime_allowed, set_ime_cursor_area, set_cursor_visible, set_cursor:
\* the window keeps the arguments of the calls of each, in order.
Window_call(sw, fn, arg) == [sw EXCEPT !.window[fn] = Append(@, arg)]

\* translate_cursor: an egui::CursorIcon as the winit::window::CursorIcon of
\* the same name, but for the ones winit names otherwise, and none for None.
translate_cursor(cursor_icon) ==
    CASE cursor_icon = "None"             -> None
      [] cursor_icon = "PointingHand"     -> Some("Pointer")
      [] cursor_icon = "ResizeHorizontal" -> Some("EwResize")
      [] cursor_icon = "ResizeNeSw"       -> Some("NeswResize")
      [] cursor_icon = "ResizeNwSe"       -> Some("NwseResize")
      [] cursor_icon = "ResizeVertical"   -> Some("NsResize")
      [] cursor_icon = "ResizeEast"       -> Some("EResize")
      [] cursor_icon = "ResizeSouthEast"  -> Some("SeResize")
      [] cursor_icon = "ResizeSouth"      -> Some("SResize")
      [] cursor_icon = "ResizeSouthWest"  -> Some("SwResize")
      [] cursor_icon = "ResizeWest"       -> Some("WResize")
      [] cursor_icon = "ResizeNorthWest"  -> Some("NwResize")
      [] cursor_icon = "ResizeNorth"      -> Some("NResize")
      [] cursor_icon = "ResizeNorthEast"  -> Some("NeResize")
      [] cursor_icon = "ResizeColumn"     -> Some("ColResize")
      [] cursor_icon = "ResizeRow"        -> Some("RowResize")
      [] OTHER                            -> Some(cursor_icon)

\* The cursor shown whatever the icon: CursorIcon::None as the arrow.
apply_cursor_icon_shown(sw, winit_cursor_icon) ==
    Window_call(Window_call(sw, "set_cursor_visible", TRUE),
                "set_cursor",
                IF is_some(winit_cursor_icon) THEN winit_cursor_icon[1] ELSE "Default")

\* `if let Some(winit_cursor_icon) = translate_cursor(cursor_icon) { .. } else { .. }`
apply_cursor_icon(sw, winit_cursor_icon) ==
    IF is_some(winit_cursor_icon)
    THEN Window_call(Window_call(sw, "set_cursor_visible", TRUE),
                     "set_cursor", winit_cursor_icon[1])
    ELSE Window_call(sw, "set_cursor_visible", FALSE)

\* The icon kept as it is while the pointer is outside the window.
set_cursor_icon_kept_outside(sw, cursor_icon) ==
    IF sw.state.current_cursor_icon = Some(cursor_icon)
    THEN sw
    ELSE IF is_some(sw.state.pointer_pos_in_points)
    THEN apply_cursor_icon([sw EXCEPT !.state.current_cursor_icon = Some(cursor_icon)],
                           translate_cursor(cursor_icon))
    ELSE sw

\* State::set_cursor_icon, on the State and the window together.
set_cursor_icon(sw, cursor_icon) ==
    IF sw.state.current_cursor_icon = Some(cursor_icon)
    THEN sw
    ELSE IF is_some(sw.state.pointer_pos_in_points)
    THEN apply_cursor_icon([sw EXCEPT !.state.current_cursor_icon = Some(cursor_icon)],
                           translate_cursor(cursor_icon))
    ELSE [sw EXCEPT !.state.current_cursor_icon = None]

RECURSIVE output_commands(_, _)
\* `for command in commands { match command { .. } }`: CopyText sets the
\* clipboard; CopyImage and OpenUrl leave the State and the window alone.
output_commands(sw, commands) ==
    IF commands = <<>> THEN sw
    ELSE output_commands(
             IF Head(commands).kind = "CopyText"
             THEN [sw EXCEPT !.state.clipboard = Some(Head(commands).text)]
             ELSE sw,
             Tail(commands))

\* `if !copied_text.is_empty() { self.clipboard.set_text(copied_text); }`
copy_text(sw, copied_text) ==
    IF copied_text # "" THEN [sw EXCEPT !.state.clipboard = Some(copied_text)] ELSE sw

\* Window::set_ime_allowed called at the end of every frame.
allow_ime_each_frame(sw, allow_ime) ==
    Window_call([sw EXCEPT !.state.allow_ime = allow_ime], "set_ime_allowed", allow_ime)

\* `if self.allow_ime != allow_ime { self.allow_ime = allow_ime; window.set_ime_allowed(allow_ime); }`
allow_ime_changed(sw, allow_ime) ==
    IF sw.state.allow_ime # allow_ime
    THEN Window_call([sw EXCEPT !.state.allow_ime = allow_ime], "set_ime_allowed", allow_ime)
    ELSE sw

\* `pixels_per_point * ime.rect`
scale_rect(ppp, rect) ==
    Rect_from_min_max(pos2(ppp * rect.min[1], ppp * rect.min[2]),
                      pos2(ppp * rect.max[1], ppp * rect.max[2]))

\* `if let Some(ime) = ime { .. } else { self.ime_rect_px = None; }`
ime_cursor_area(sw, ctx, ppp, ime) ==
    IF is_some(ime)
    THEN IF \/ sw.state.ime_rect_px # Some(scale_rect(ppp, ime[1].rect))
            \/ ctx.input_has_events
         THEN Window_call([sw EXCEPT !.state.ime_rect_px = Some(scale_rect(ppp, ime[1].rect))],
                          "set_ime_cursor_area", scale_rect(ppp, ime[1].rect))
         ELSE sw
    ELSE [sw EXCEPT !.state.ime_rect_px = None]

\* State::handle_platform_output: the State and the window afterwards.
handle_platform_output(s, ctx, win, platform_output) ==
    ime_cursor_area(
        allow_ime_changed(
            copy_text(
                set_cursor_icon(
                    output_commands([state |-> s, window |-> win], platform_output.commands),
                    platform_output.cursor_icon),
                platform_output.copied_text),
            is_some(platform_output.ime)),
        ctx, pixels_per_point(ctx, win), platform_output.ime)

\* process_viewport_command, for the commands of the IME; the other commands
\* are not in the model.
process_viewport_command(ctx, win, command) ==
    CASE command.kind = "IMEAllowed" ->
             [win EXCEPT !.set_ime_allowed = Append(@, command.allowed)]
      [] command.kind = "IMERect" ->
             [win EXCEPT !.set_ime_cursor_area =
                 Append(@, scale_rect(pixels_per_point(ctx, win), command.rect))]

RECURSIVE process_viewport_commands(_, _, _)
\* process_viewport_commands
process_viewport_commands(ctx, win, commands) ==
    IF commands = <<>> THEN win
    ELSE process_viewport_commands(ctx, process_viewport_command(ctx, win, Head(commands)),
                                   Tail(commands))

\* State::allow_ime
allow_ime(s) == s.allow_ime

----------------------------------------------------------------------------
(* The calls on a State, and what the properties keep of them. *)

\* The key events a window sends: Tab and a letter, pressed and released, real
\* and synthetic.
KeyEvents ==
    { [physical_key |-> [kind |-> "Code", code |-> "Tab"],
       logical_key  |-> [kind |-> "Named", name |-> "Tab"],
       text         |-> IF st = "Pressed" THEN Some("\t") ELSE None,
       state        |-> st] : st \in {"Pressed", "Released"} }
    \cup
    { [physical_key |-> [kind |-> "Code", code |-> "KeyA"],
       logical_key  |-> [kind |-> "Character", name |-> "a"],
       text         |-> IF st = "Pressed" THEN Some("a") ELSE None,
       state        |-> st] : st \in {"Pressed", "Released"} }

KeyboardInputs ==
    { [type |-> "KeyboardInput", event |-> e, is_synthetic |-> syn] :
          e \in KeyEvents, syn \in BOOLEAN }

\* Two fingers on one touch screen, each in its own place.
Touches ==
    { [type |-> "Touch",
       touch |-> [device_id |-> "screen", id |-> id, phase |-> phase,
                  location |-> <<40 + 40 * id, 60>>, force |-> None]] :
          id \in {0, 1}, phase \in {"Started", "Moved", "Ended", "Cancelled"} }

Imes ==
    { [type |-> "Ime", ime |-> [kind |-> "Enabled", text |-> "", cursor |-> None]],
      [type |-> "Ime", ime |-> [kind |-> "Preedit", text |-> "k", cursor |-> Some(<<0, 1>>)]],
      [type |-> "Ime", ime |-> [kind |-> "Preedit", text |-> "", cursor |-> None]],
      [type |-> "Ime", ime |-> [kind |-> "Commit", text |-> "k", cursor |-> None]],
      [type |-> "Ime", ime |-> [kind |-> "Disabled", text |-> "", cursor |-> None]] }

WindowEvents ==
    KeyboardInputs \cup Touches \cup Imes
    \cup { [type |-> "CursorLeft"], [type |-> "Focused", focused |-> TRUE] }

\* What egui answers when asked: nothing wanted, the keyboard wanted, the
\* pointer wanted and in use.
EguiContexts ==
    { [wants_keyboard_input |-> k, wants_pointer_input |-> p, is_using_pointer |-> p,
       zoom_factor |-> 1, input_has_events |-> FALSE] :
          k \in BOOLEAN, p \in BOOLEAN } 

\* A window nothing was called on yet.
NewWindow(target_os) ==
    [scale_factor        |-> 2,
     target_os           |-> target_os,
     inner_size          |-> <<800, 600>>,
     outer_size          |-> <<800, 640>>,
     set_ime_allowed     |-> <<>>,
     set_ime_cursor_area |-> <<>>,
     set_cursor_visible  |-> <<>>,
     set_cursor          |-> <<>>]

\* What is kept of the calls: how many of each, the last one with its
\* argument, its answer and the State and the window before it, every egui
\* event in the order it was pushed, and what every take_egui_input returned.
NoInput ==
    [events   |-> 0,
     takes    |-> 0,
     outputs  |-> 0,
     op       |-> "new",
     event    |-> [type |-> "none"],
     response |-> EventResponse(FALSE, FALSE),
     pre      |-> State_new,
     output   |-> [commands |-> <<>>, cursor_icon |-> "Default", open_url |-> None,
                   copied_text |-> "", ime |-> None],
     pre_window |-> NewWindow("linux"),
     arrived  |-> <<>>,
     taken    |-> <<>>]

\* The events `after` holds beyond the first `n`.
pushed(n, after) == SubSeq(after, n + 1, Len(after))

OnWindowEventDone(event, result) ==
    /\ state' = result.state
    /\ input' = [input EXCEPT !.events   = @ + 1,
                              !.op       = "on_window_event",
                              !.event    = event,
                              !.response = result.response,
                              !.pre      = state,
                              !.arrived  = @ \o pushed(Len(state.egui_input.events),
                                                       result.state.egui_input.events)]

\* The window sends an event.
OnWindowEvent ==
    /\ input.events < MaxEvents
    /\ \E event \in WindowEvents :
           OnWindowEventDone(event, on_window_event(state, egui_ctx, window, event))
    /\ UNCHANGED <<egui_ctx, window>>
    /\ UNCHANGED selVars
    /\ UNCHANGED curVars

\* The window sends an event of its input method.
OnImeEvent ==
    /\ input.events < MaxImes
    /\ \E event \in Imes :
           OnWindowEventDone(event, on_window_event(state, egui_ctx, window, event))
    /\ UNCHANGED <<egui_ctx, window>>
    /\ UNCHANGED selVars
    /\ UNCHANGED curVars

TakeEguiInputDone(result) ==
    /\ state' = result.state
    /\ input' = [input EXCEPT !.takes = @ + 1,
                              !.op    = "take_egui_input",
                              !.pre   = state,
                              !.taken = Append(@, result.returned.events)]

\* A frame begins.
TakeEguiInput ==
    /\ input.takes < MaxTakes
    /\ TakeEguiInputDone(take_egui_input(state, egui_ctx, window))
    /\ UNCHANGED <<egui_ctx, window>>
    /\ UNCHANGED selVars
    /\ UNCHANGED curVars

\* The rectangles of the IME cursor, in points.
ImeRects ==
    { Rect_from_min_max(pos2(10, 20), pos2(12, 40)),
      Rect_from_min_max(pos2(30, 20), pos2(32, 40)) }

\* What egui puts out at the end of a frame: no IME wanted, or one at a cursor.
PlatformOutputs ==
    { [commands |-> <<>>, cursor_icon |-> icon, open_url |-> None, copied_text |-> "",
       ime |-> ime] :
          icon \in {"Default", "Text"},
          ime \in {None} \cup { Some([rect |-> r, cursor_rect |-> r]) : r \in ImeRects } }

HandlePlatformOutputDone(platform_output, result) ==
    /\ state' = result.state
    /\ window' = result.window
    /\ input' = [input EXCEPT !.outputs    = @ + 1,
                              !.op         = "handle_platform_output",
                              !.pre        = state,
                              !.output     = platform_output,
                              !.pre_window = window]

\* A frame ends.
HandlePlatformOutput ==
    /\ input.outputs < MaxOutputs
    /\ \E platform_output \in PlatformOutputs :
           HandlePlatformOutputDone(
               platform_output,
               handle_platform_output(state, egui_ctx, window, platform_output))
    /\ UNCHANGED egui_ctx
    /\ UNCHANGED selVars
    /\ UNCHANGED curVars

\* The pointer leaves the window and comes back.
PointerEvents ==
    { [type |-> "CursorLeft"], [type |-> "CursorMoved", position |-> <<40, 60>>] }

\* The window sends an event of the pointer.
OnPointerEvent ==
    /\ input.events < MaxEvents
    /\ \E event \in PointerEvents :
           OnWindowEventDone(event, on_window_event(state, egui_ctx, window, event))
    /\ UNCHANGED <<egui_ctx, window>>
    /\ UNCHANGED selVars
    /\ UNCHANGED curVars

\* What egui puts out at the end of a frame when no IME is wanted: the arrow,
\* the hand, or no cursor at all.
CursorOutputs ==
    { [commands |-> <<>>, cursor_icon |-> icon, open_url |-> None, copied_text |-> "",
       ime |-> None] :
          icon \in {"Default", "PointingHand", "None"} }

\* A frame ends, with a cursor icon.
HandleCursorOutput ==
    /\ input.outputs < MaxOutputs
    /\ \E platform_output \in CursorOutputs :
           HandlePlatformOutputDone(
               platform_output,
               handle_platform_output(state, egui_ctx, window, platform_output))
    /\ UNCHANGED egui_ctx
    /\ UNCHANGED selVars
    /\ UNCHANGED curVars

\* ViewportCommand::IMEAllowed, ViewportCommand::IMERect
IMEAllowed(v) == [kind |-> "IMEAllowed", allowed |-> v]

IMERect(rect) == [kind |-> "IMERect", rect |-> rect]

\* The commands an application sends in one go: the IME allowed or not, its
\* cursor moved, both, the IME allowed for a moment only.
ViewportCommandLists ==
    { <<IMEAllowed(v)>> : v \in BOOLEAN }
    \cup { <<IMERect(r)>> : r \in ImeRects }
    \cup { <<IMEAllowed(TRUE), IMERect(r)>> : r \in ImeRects }
    \cup { <<IMEAllowed(TRUE), IMEAllowed(FALSE)>> }

\* The application sends commands to its viewport.
ProcessViewportCommands ==
    /\ input.outputs < MaxOutputs
    /\ \E commands \in ViewportCommandLists :
           window' = process_viewport_commands(egui_ctx, window, commands)
    /\ input' = [input EXCEPT !.outputs    = @ + 1,
                              !.op         = "process_viewport_commands",
                              !.pre        = state,
                              !.pre_window = window]
    /\ UNCHANGED <<state, egui_ctx>>
    /\ UNCHANGED selVars
    /\ UNCHANGED curVars

\* The State while the painters are looked at.
WinitIdle ==
    /\ state = State_new
    /\ egui_ctx = [wants_keyboard_input |-> FALSE, wants_pointer_input |-> FALSE,
                   is_using_pointer |-> FALSE, zoom_factor |-> 1,
                   input_has_events |-> FALSE]
    /\ window = NewWindow("linux")
    /\ input = NoInput

----------------------------------------------------------------------------
(* The specifications of the selection painter. *)

\* The text-cursor state while the selection painter is looked at.
CursorIdle ==
    /\ text_cursor = [blink |-> FALSE, on_duration |-> F32Step, off_duration |-> F32Step,
                      stroke |-> CursorStroke]
    /\ painter = <<>>
    /\ repaints = <<>>
    /\ blink = NoBlink

\* A record an earlier call left in the caller's Vec.
EarlierRecord == RowVertexIndices(0, <<4, 5, 6, 6, 5, 7>>)

\* A galley fresh from the layout, its rows taken from `templates`: every row
\* its own object.
FreshGalley(templates) ==
    /\ \E rows \in SeqsUpTo(templates, MaxRows) :
           /\ rowHeap = rows
           /\ galleyHeap = << [rows |-> [k \in 1..Len(rows) |-> k]] >>
    /\ galley = 1
    /\ call = NoCall

\* The caller holds the only handle to the galley and to each of its rows; its
\* Vec is empty or holds an earlier record.
InitSelection ==
    /\ FreshGalley(RowTemplates)
    /\ otherGalleys = {}
    /\ otherRows = {}
    /\ observed = [galleys |-> <<>>, rows |-> <<>>]
    /\ sink \in {<<>>, <<EarlierRecord>>}
    /\ CursorIdle
    /\ WinitIdle

NextSelection == PaintTextSelection

SpecSelection == InitSelection /\ [][NextSelection]_vars

\* The rows of the galleys whose sharing is looked at.
SharedTemplates ==
    { LayoutRow(<<0, 50>>, 100, 20, FALSE, FALSE, TRUE),
      LayoutRow(<<0>>, 40, 20, TRUE, TRUE, FALSE) }

\* Other owners hold up to MaxShared handles, to the galley or to rows of it
\* (the layout cache, an earlier frame), and have looked at what they hold.
InitSharing ==
    /\ FreshGalley(SharedTemplates)
    /\ otherGalleys \in SUBSET {1}
    /\ otherRows \in SUBSET (1..MaxRows)
    /\ otherRows \subseteq 1..Len(rowHeap)
    /\ Cardinality(otherGalleys) + Cardinality(otherRows) <= MaxShared
    /\ observed = [galleys |-> [g \in otherGalleys |-> Rows(galleyHeap, rowHeap, g)],
                   rows    |-> [r \in otherRows |-> rowHeap[r]]]
    /\ sink = <<>>
    /\ CursorIdle
    /\ WinitIdle

NextSharing ==
    \/ PaintTextSelection
    \/ DropGalley
    \/ DropRow

SpecSharing == InitSharing /\ [][NextSharing]_vars

----------------------------------------------------------------------------
(* The specification of a galley painted again and again: a label of two   *)
(* rows whose selection changes while the layout is kept.                  *)

\* "a\n" with a background, and "b" underlined.
RepaintedRows ==
    << LayoutRow(<<0>>, 10, 20, TRUE, TRUE, FALSE),
       LayoutRow(<<0>>, 10, 20, FALSE, FALSE, TRUE) >>

InitRepaint ==
    /\ rowHeap = RepaintedRows
    /\ galleyHeap = << [rows |-> [k \in 1..Len(RepaintedRows) |-> k]] >>
    /\ galley = 1
    /\ call = NoCall
    /\ otherGalleys = {}
    /\ otherRows = {}
    /\ observed = [galleys |-> <<>>, rows |-> <<>>]
    /\ sink = <<>>
    /\ CursorIdle
    /\ WinitIdle

NextRepaint ==
    \/ PaintTextSelection
    \/ PaintTextSelectionAgain

SpecRepaint == InitRepaint /\ [][NextRepaint]_vars

----------------------------------------------------------------------------
(* The specification of the text cursor. *)

\* The galley state while the text cursor is looked at.
SelectionIdle ==
    /\ rowHeap = <<>>
    /\ galleyHeap = <<>>
    /\ galley = 0
    /\ otherGalleys = {}
    /\ otherRows = {}
    /\ observed = [galleys |-> <<>>, rows |-> <<>>]
    /\ sink = <<>>
    /\ call = NoCall

\* Any style whose cycle is not empty; nothing painted or requested yet.
InitCursor ==
    /\ \E b \in BOOLEAN, on \in 0..MaxDuration, off \in 0..MaxDuration :
           /\ on + off > 0
           /\ text_cursor = [blink |-> b, on_duration |-> on * F32Step,
                             off_duration |-> off * F32Step, stroke |-> CursorStroke]
    /\ painter = <<>>
    /\ repaints = <<>>
    /\ blink = NoBlink
    /\ SelectionIdle
    /\ WinitIdle

NextCursor == PaintTextCursor

SpecCursor == InitCursor /\ [][NextCursor]_vars

----------------------------------------------------------------------------
(* The specifications of the State. *)

\* A State as State::new makes it, on Linux or on Windows, with an egui that
\* wants the keyboard or not, the pointer or not.
InitInput ==
    /\ state = State_new
    /\ egui_ctx \in EguiContexts
    /\ window \in { NewWindow(target_os) : target_os \in {"linux", "windows"} }
    /\ input = NoInput
    /\ SelectionIdle
    /\ CursorIdle

NextInput ==
    \/ OnWindowEvent
    \/ TakeEguiInput

SpecInput == InitInput /\ [][NextInput]_vars

\* A State as State::new makes it, or one the pointer has since moved over;
\* egui has events in its input or has none.
InitIme ==
    /\ state \in { State_new, [State_new EXCEPT !.pointer_pos_in_points = Some(pos2(20, 30))] }
    /\ egui_ctx \in { [wants_keyboard_input |-> FALSE, wants_pointer_input |-> FALSE,
                        is_using_pointer |-> FALSE, zoom_factor |-> 1,
                        input_has_events |-> e] : e \in BOOLEAN }
    /\ window = NewWindow("linux")
    /\ input = NoInput
    /\ SelectionIdle
    /\ CursorIdle

NextIme ==
    \/ HandlePlatformOutput
    \/ ProcessViewportCommands

SpecIme == InitIme /\ [][NextIme]_vars

\* The events of an input method, and the frames that take them.
NextImeEvents ==
    \/ OnImeEvent
    \/ TakeEguiInput

SpecImeEvents == InitInput /\ [][NextImeEvents]_vars

\* The pointer in and out of the window, and the frames that set its icon.
NextCursorIcon ==
    \/ OnPointerEvent
    \/ HandleCursorOutput

SpecCursorIcon == InitIme /\ [][NextCursorIcon]_vars

----------------------------------------------------------------------------
(* The last call of paint_text_selection, as the properties read it. *)

\* The call painted: its range was not empty.
Painted == call.called /\ ~call.empty

\* The rows the call painted.
PaintedRows == IF Painted THEN call.min.row .. call.max.row ELSE {}

\* Row ri of the caller's galley now, and before the call.
Now(ri) == rowHeap[Get(galleyHeap[galley].rows, ri)]

Before(ri) == Get(call.pre_rows, ri)

\* The sequence s from 0-based position from on.
From(s, from) == SubSeq(s, from + 1, Len(s))

\* The first n elements of s.
Upto(s, n) == SubSeq(s, 1, n)

\* The index buffer `after` is `before` with 6 indices, none of which refers to a
\* vertex of `before`, inserted at position at.
InsertedAt(before, after, at) ==
    /\ Upto(after.indices, at) = Upto(before.indices, at)
    /\ From(after.indices, at + 6) = From(before.indices, at)
    /\ \A k \in at .. at + 5 : Get(after.indices, k) >= Len(before.vertices)

\* C1: in every row a call painted, the indices that were before
\* glyph_index_start are still the first ones, unchanged; the 6 new indices
\* (of the new vertices) follow; then the indices that were at or after
\* glyph_index_start, unchanged and in their order.
C1_OrderKept ==
    \A ri \in PaintedRows :
        InsertedAt(Before(ri).visuals.mesh, Now(ri).visuals.mesh,
                   Before(ri).visuals.glyph_index_start)

\* A painted row with a background before the marker and more than 6 indices after it.
C1_Witness ==
    \E ri \in PaintedRows :
        /\ Before(ri).visuals.glyph_index_start > 0
        /\ Len(Before(ri).visuals.mesh.indices) > Before(ri).visuals.glyph_index_start + 6
        /\ Len(Now(ri).visuals.mesh.indices) > Len(Before(ri).visuals.mesh.indices)

\* C2: the index buffer of every row in min.row..max.row is 6 longer after the call.
C2_SixMore ==
    \A ri \in PaintedRows :
        Len(Now(ri).visuals.mesh.indices) = Len(Before(ri).visuals.mesh.indices) + 6

\* A call over three rows, each 6 indices longer.
C2_Witness ==
    /\ Painted
    /\ call.max.row = call.min.row + 2
    /\ \A ri \in PaintedRows :
           Len(Now(ri).visuals.mesh.indices) = Len(Before(ri).visuals.mesh.indices) + 6

\* Whether the index at position k of the mesh refers to a vertex of a glyph.
IsGlyphIndex(mesh, k) == Get(mesh.vertices, Get(mesh.indices, k)).color = TextColor

\* Whether the index at position k of the mesh refers to a vertex of a highlight.
IsSelectionIndex(mesh, k) == Get(mesh.vertices, Get(mesh.indices, k)).color = selection_bg_fill

Positions(mesh) == 0 .. Len(mesh.indices) - 1

\* C3 as stated: in every painted row glyph_index_start is what it was, every
\* index before it belongs to a non-glyph triangle and every index at or after
\* it to a glyph triangle.
C3_MarkerSeparates ==
    \A ri \in PaintedRows :
        /\ Now(ri).visuals.glyph_index_start = Before(ri).visuals.glyph_index_start
        /\ \A k \in Positions(Now(ri).visuals.mesh) :
               IsGlyphIndex(Now(ri).visuals.mesh, k)
                   <=> k >= Now(ri).visuals.glyph_index_start

\* C3 as amended: in every painted row glyph_index_start is what it was; every
\* index before it belongs to a non-glyph triangle; the 6 indices at the
\* marker are the highlight's, which is no glyph; the glyph triangles start 6
\* positions after the marker.
C3_MarkerKept ==
    \A ri \in PaintedRows :
        /\ Now(ri).visuals.glyph_index_start = Before(ri).visuals.glyph_index_start
        /\ \A k \in Positions(Now(ri).visuals.mesh) :
               /\ IsGlyphIndex(Now(ri).visuals.mesh, k)
                      <=> k >= Now(ri).visuals.glyph_index_start + 6
               /\ IsSelectionIndex(Now(ri).visuals.mesh, k)
                      <=> /\ k >= Now(ri).visuals.glyph_index_start
                          /\ k < Now(ri).visuals.glyph_index_start + 6

\* A painted row with a background before the marker and glyphs after the highlight.
C3_Witness ==
    \E ri \in PaintedRows :
        /\ Now(ri).visuals.glyph_index_start > 0
        /\ Len(Now(ri).visuals.mesh.indices) > Now(ri).visuals.glyph_index_start + 6
        /\ IsSelectionIndex(Now(ri).visuals.mesh, Now(ri).visuals.glyph_index_start)

\* C4: after a call with an empty range the caller's handle is the one it was,
\* no Galley and no Row was allocated, the rows of the galley are what they
\* were and so is the Vec.
C4_EmptyIsNoOp ==
    (call.called /\ call.empty) =>
        /\ galley = call.pre_galley
        /\ <<Len(galleyHeap), Len(rowHeap)>> = call.pre_heap
        /\ Rows(galleyHeap, rowHeap, galley) = call.pre_rows
        /\ sink = call.pre_sink

\* A call with an empty range and a Vec, on a galley another owner holds.
C4_Witness ==
    /\ call.called
    /\ call.empty
    /\ call.with_sink
    /\ otherGalleys # {}
    /\ galley = call.pre_galley

\* C5: every other owner of a Galley or of a Row sees what it saw when it took
\* its handle, and the caller sees the highlight in every row it painted.
C5_CopyOnWrite ==
    /\ \A g \in otherGalleys : Rows(galleyHeap, rowHeap, g) = observed.galleys[g]
    /\ \A r \in otherRows : rowHeap[r] = observed.rows[r]
    /\ \A ri \in PaintedRows : Now(ri) # Before(ri)

\* A painted galley another owner holds: the caller's handle is a new Galley.
C5_Witness ==
    /\ Painted
    /\ call.pre_galley \in otherGalleys
    /\ galley # call.pre_galley
    /\ \E ri \in PaintedRows :
           Get(galleyHeap[galley].rows, ri) # Get(galleyHeap[call.pre_galley].rows, ri)

\* The four vertices the call appended to row ri: the highlight's corners.
Corner(ri, k) == Now(ri).visuals.mesh.vertices[Len(Before(ri).visuals.mesh.vertices) + k].pos

\* The highlight of row ri is the rectangle (left, 0) - (right, bottom).
HighlightIs(ri, left, right, bottom) ==
    /\ Len(Now(ri).visuals.mesh.vertices) = Len(Before(ri).visuals.mesh.vertices) + 4
    /\ Corner(ri, 1) = <<left, 0>>
    /\ Corner(ri, 2) = <<right, 0>>
    /\ Corner(ri, 3) = <<left, bottom>>
    /\ Corner(ri, 4) = <<right, bottom>>

\* The x of `column` in a row: the glyph's, or the row's width past the last glyph.
ColumnX(row, column) ==
    IF column < Len(row.glyphs) THEN row.glyphs[column + 1] ELSE row.size[1]

\* The spec's example: three rows of width 100 without newline, selected from
\* x = 50 in row 0 to x = 30 in row 2.
C6_Example ==
    /\ Painted
    /\ Len(call.pre_rows) = 3
    /\ \A k \in 1..3 : call.pre_rows[k].size[1] = 100 /\ ~call.pre_rows[k].ends_with_newline
    /\ call.min.row = 0 /\ ColumnX(Before(0), call.min.column) = 50
    /\ call.max.row = 2 /\ ColumnX(Before(2), call.max.column) = 30

\* C6: the highlight of a painted row goes from (left, 0) to (right, row
\* height): left is the x of min's column in the first painted row and 0 in
\* the others, right the x of max's column in the last painted row and the
\* row's width in the others that do not end with a newline; in the spec's
\* example the spans are [50,100], [0,100], [0,30].
C6_Spans ==
    /\ \A ri \in PaintedRows :
           \/ Before(ri).ends_with_newline /\ ri # call.max.row
           \/ HighlightIs(ri,
                          IF ri = call.min.row THEN ColumnX(Before(ri), call.min.column) ELSE 0,
                          IF ri = call.max.row THEN ColumnX(Before(ri), call.max.column)
                                               ELSE Before(ri).size[1],
                          Before(ri).size[2])
    /\ \A ri \in PaintedRows :
           /\ Corner(ri, 1)[1] = IF ri = call.min.row THEN ColumnX(Before(ri), call.min.column)
                                                     ELSE 0
           /\ Corner(ri, 1)[2] = 0
           /\ Corner(ri, 4)[2] = Before(ri).size[2]
    /\ C6_Example =>
           /\ HighlightIs(0, 50, 100, 20)
           /\ HighlightIs(1, 0, 100, 20)
           /\ HighlightIs(2, 0, 30, 20)

\* The spec's example, painted.
C6_Witness ==
    /\ C6_Example
    /\ HighlightIs(0, 50, 100, 20)
    /\ HighlightIs(1, 0, 100, 20)
    /\ HighlightIs(2, 0, 30, 20)

\* C7: the highlight of a painted row that ends with a newline and is not the
\* last painted row ends half a row height right of the row's width (50 for a
\* row of width 40 and height 20); the highlight of the last painted row ends
\* at the x of max's column and that of a row without newline never ends right
\* of the row's width.
C7_NewlineSliver ==
    \A ri \in PaintedRows :
        /\ (Before(ri).ends_with_newline /\ ri # call.max.row) =>
               /\ 2 * (Corner(ri, 2)[1] - Before(ri).size[1]) = Before(ri).size[2]
               /\ (Before(ri).size = <<40, 20>>) => Corner(ri, 2)[1] = 50
        /\ ri = call.max.row =>
               /\ Corner(ri, 2)[1] = ColumnX(Before(ri), call.max.column)
               /\ Corner(ri, 2)[1] <= Before(ri).size[1]
        /\ ~Before(ri).ends_with_newline => Corner(ri, 2)[1] <= Before(ri).size[1]

\* A row of width 40 and height 20 that ends with a newline, painted to 50, and
\* the last painted row, which ends with a newline too, painted to its width.
C7_Witness ==
    /\ Painted
    /\ call.min.row < call.max.row
    /\ Before(call.min.row).ends_with_newline
    /\ Before(call.min.row).size = <<40, 20>>
    /\ Corner(call.min.row, 2)[1] = 50
    /\ Before(call.max.row).ends_with_newline
    /\ Corner(call.max.row, 2)[1] = Before(call.max.row).size[1]

\* The 6 indices at glyph_index_start of row ri now.
AtMarker(ri) ==
    SubSeq(Now(ri).visuals.mesh.indices,
           Now(ri).visuals.glyph_index_start + 1,
           Now(ri).visuals.glyph_index_start + 6)

\* C8: after a call with a Vec and a range that is not empty, the Vec is what
\* it was followed by one record per row of min.row..max.row, in ascending
\* order, each holding the 6 indices now at glyph_index_start of its row.
C8_Records ==
    (Painted /\ call.with_sink) =>
        sink = call.pre_sink \o
               [k \in 1 .. (call.max.row - call.min.row + 1) |->
                   RowVertexIndices(call.min.row + k - 1, AtMarker(call.min.row + k - 1))]

\* A call over several rows with a Vec that held a record.
C8_Witness ==
    /\ Painted
    /\ call.with_sink
    /\ call.pre_sink # <<>>
    /\ call.min.row < call.max.row
    /\ Len(sink) = Len(call.pre_sink) + (call.max.row - call.min.row + 1)

----------------------------------------------------------------------------
(* The last call of paint_text_cursor, as the properties read it. *)

\* The cycle of the style, and where in it the last call was.
Cycle == text_cursor.on_duration + text_cursor.off_duration

\* The f32 the call compared with on_duration.
Phase == as_f32(blink.time % Cycle)

\* The last call drew something: the painter holds what it held and more.
Drew ==
    /\ Len(painter) > Len(blink.pre_painter)
    /\ Upto(painter, Len(blink.pre_painter)) = blink.pre_painter

\* The last call asked for one repaint, after `delay`.
RepaintAfter(delay) == repaints = Append(blink.pre_repaints, delay)

\* C9: with blinking on and a cycle that is not empty, a call at a phase before
\* on_duration draws the cursor and asks for a repaint after on_duration minus
\* the phase; at any other phase it draws nothing and asks for a repaint after
\* the cycle minus the phase.
C9_Blink ==
    (blink.called /\ text_cursor.blink /\ Cycle > 0) =>
        IF Phase < text_cursor.on_duration
        THEN Drew /\ RepaintAfter(text_cursor.on_duration - Phase)
        ELSE painter = blink.pre_painter /\ RepaintAfter(Cycle - Phase)

\* A call in the second cycle or later, at the phase where the cursor goes off.
C9_Witness ==
    /\ blink.called
    /\ text_cursor.blink
    /\ text_cursor.on_duration > 0
    /\ blink.time > Cycle
    /\ Phase = text_cursor.on_duration
    /\ painter = blink.pre_painter
    /\ RepaintAfter(text_cursor.off_duration)

\* C10: with blinking off, a call draws exactly one stroke, from the middle of
\* the rectangle's top to the middle of its bottom with the style's stroke,
\* whatever the time, and asks for no repaint; and no call draws more than one
\* shape.
C10_NoBlink ==
    /\ (blink.called /\ ~text_cursor.blink) =>
           /\ Len(painter) = Len(blink.pre_painter) + 1
           /\ Upto(painter, Len(blink.pre_painter)) = blink.pre_painter
           /\ 2 * painter[Len(painter)].points[1][1] = blink.rect.min[1] + blink.rect.max[1]
           /\ painter[Len(painter)].points[1][2] = blink.rect.min[2]
           /\ 2 * painter[Len(painter)].points[2][1] = blink.rect.min[1] + blink.rect.max[1]
           /\ painter[Len(painter)].points[2][2] = blink.rect.max[2]
           /\ painter[Len(painter)].width = text_cursor.stroke.width
           /\ painter[Len(painter)].color = text_cursor.stroke.color
           /\ repaints = blink.pre_repaints
    /\ Len(painter) <= Len(blink.pre_painter) + 1

\* Two calls with blinking off, the second later than a cycle: two strokes, no repaint.
C10_Witness ==
    /\ blink.called
    /\ ~text_cursor.blink
    /\ blink.calls = 2
    /\ blink.time > Cycle
    /\ Len(painter) = 2
    /\ repaints = <<>>

----------------------------------------------------------------------------
(* Every call of paint_text_cursor in the log, blinking on: the n-th call   *)
(* made the n-th request.                                                   *)

Calls == 1 .. Len(blink.log)

\* C11: with blinking on, two calls whose times differ by a whole number of
\* cycles decide the same, to draw or not, and ask for a repaint after the same
\* delay, whatever was called before, between or after them.
C11_Periodic ==
    text_cursor.blink =>
        \A i \in Calls, j \in Calls :
            (blink.log[j].time >= blink.log[i].time
             /\ (blink.log[j].time - blink.log[i].time) % Cycle = 0) =>
                /\ blink.log[i].drew = blink.log[j].drew
                /\ repaints[i] = repaints[j]

\* Two calls a whole number of cycles apart, off the start of the cycle, the
\* cursor drawn.
C11_Witness ==
    /\ text_cursor.blink
    /\ Len(blink.log) = 2
    /\ blink.log[2].time > blink.log[1].time
    /\ (blink.log[2].time - blink.log[1].time) % Cycle = 0
    /\ blink.log[1].time % Cycle # 0
    /\ blink.log[2].drew
    /\ Len(painter) = 2

\* The delay the last call asked for.
Delay == repaints[Len(repaints)]

\* Where in the cycle the last call was, before the conversion to f32.
ExactPhase == blink.time % Cycle

\* The last call blinked, and neither duration is zero.
Blinked ==
    /\ blink.called
    /\ text_cursor.blink
    /\ text_cursor.on_duration > 0
    /\ text_cursor.off_duration > 0

\* C20 as stated: the delay is in (0, on] when the cursor is drawn and in
\* (0, off] when it is not, and the time plus the delay is the next change of
\* visibility.
C20_WakeExact ==
    Blinked =>
        IF Drew
        THEN /\ Delay \in 1 .. text_cursor.on_duration
             /\ ExactPhase + Delay = text_cursor.on_duration
        ELSE /\ Delay \in 1 .. text_cursor.off_duration
             /\ ExactPhase + Delay = Cycle

\* C20, amended: the delay is in (0, on] when the cursor is drawn and in
\* [0, off] when it is not; it is zero exactly when the remainder, converted to
\* f32, is the whole cycle; and the time plus the delay is within half an f32
\* step of the end of the sub-interval the call decided on.
C20_WakeWithin ==
    Blinked =>
        IF Drew
        THEN /\ Delay \in 1 .. text_cursor.on_duration
             /\ 2 * (ExactPhase + Delay - text_cursor.on_duration) <= F32Step
             /\ 2 * (text_cursor.on_duration - ExactPhase - Delay) <= F32Step
        ELSE /\ Delay \in 0 .. text_cursor.off_duration
             /\ Delay = 0 <=> Phase = Cycle
             /\ 2 * (ExactPhase + Delay - Cycle) <= F32Step
             /\ 2 * (Cycle - ExactPhase - Delay) <= F32Step

\* A call just before the end of a cycle: the remainder is short of the cycle,
\* its f32 is the cycle, nothing is drawn and the delay is zero.
C20_Witness ==
    /\ Blinked
    /\ ExactPhase < Cycle
    /\ Phase = Cycle
    /\ ~Drew
    /\ Delay = 0

----------------------------------------------------------------------------
(* The rows the last call of paint_text_selection did not select. *)

\* The rows of the galley outside [min.row, max.row].
OtherRows == (0 .. Len(call.pre_rows) - 1) \ PaintedRows

\* C19: a call with a range that is not empty leaves every row outside
\* [min.row, max.row] as it was, mesh, indices, bounds and glyph_index_start,
\* keeps the number of rows, and appends to the Vec records of rows inside
\* [min.row, max.row] only.
C19_OthersKept ==
    Painted =>
        /\ Len(galleyHeap[galley].rows) = Len(call.pre_rows)
        /\ \A ri \in OtherRows : Now(ri) = Before(ri)
        /\ Upto(sink, Len(call.pre_sink)) = call.pre_sink
        /\ \A k \in Len(call.pre_sink) + 1 .. Len(sink) : sink[k].row \in PaintedRows

\* The middle row of three selected, a record of it appended: the first and
\* the last row are outside the range.
C19_Witness ==
    /\ Painted
    /\ call.with_sink
    /\ Len(call.pre_rows) = 3
    /\ call.min.row = 1
    /\ call.max.row = 1
    /\ Now(1) # Before(1)
    /\ Len(sink) = Len(call.pre_sink) + 1
    /\ sink[Len(sink)].row = 1

----------------------------------------------------------------------------
(* The assertion and the bounds checks of paint_text_selection. *)

\* Every row's marker is within its index buffer.
MarkersWithin(rows) ==
    \A k \in 1..Len(rows) : rows[k].visuals.glyph_index_start <= Len(rows[k].visuals.mesh.indices)

\* C12: a call on a galley whose markers are within their index buffers, with
\* cursors that resolve to rows min.row <= max.row <= the last row, fails
\* neither the assertion of six new indices nor a bounds check.
C12_NoPanic ==
    (/\ call.called
     /\ MarkersWithin(call.pre_rows)
     /\ call.min.row <= call.max.row
     /\ call.max.row < Len(call.pre_rows)) =>
        ~call.panicked

\* All three rows painted, one of them with its marker at the end of its index
\* buffer, where the slice [glyph_index_start .. glyph_index_start + 6] ends
\* at the end of the buffer.
C12_Witness ==
    /\ Painted
    /\ ~call.panicked
    /\ Len(call.pre_rows) = 3
    /\ call.min.row = 0
    /\ call.max.row = 2
    /\ \E ri \in PaintedRows :
           /\ Before(ri).visuals.glyph_index_start = Len(Before(ri).visuals.mesh.indices)
           /\ Len(Now(ri).visuals.mesh.indices) = Len(Before(ri).visuals.mesh.indices) + 6
    /\ \A ri \in PaintedRows : Now(ri) # Before(ri)

----------------------------------------------------------------------------
(* All the calls of paint_text_selection on one galley. *)

\* C18: after any number of calls, the index buffer of every row is what the
\* layout put before the marker, then 6 indices of highlight vertices for every
\* call that had the row in its range, then what the layout put from the marker
\* on, in the same order.
C18_Layers ==
    (call.called /\ ~call.panicked) =>
        \A ri \in 0 .. Len(call.original) - 1 :
            /\ Len(Now(ri).visuals.mesh.indices)
                   = Len(Get(call.original, ri).visuals.mesh.indices)
                     + 6 * Get(call.highlights, ri)
            /\ Now(ri).visuals.glyph_index_start
                   = Get(call.original, ri).visuals.glyph_index_start
            /\ Upto(Now(ri).visuals.mesh.indices, Now(ri).visuals.glyph_index_start)
                   = Upto(Get(call.original, ri).visuals.mesh.indices,
                          Now(ri).visuals.glyph_index_start)
            /\ \A k \in Now(ri).visuals.glyph_index_start ..
                         Now(ri).visuals.glyph_index_start + 6 * Get(call.highlights, ri) - 1 :
                   IsSelectionIndex(Now(ri).visuals.mesh, k)
            /\ From(Now(ri).visuals.mesh.indices,
                    Now(ri).visuals.glyph_index_start + 6 * Get(call.highlights, ri))
                   = From(Get(call.original, ri).visuals.mesh.indices,
                          Now(ri).visuals.glyph_index_start)

\* Two calls that both painted the first row, which has a background before
\* its marker: twelve highlight indices between the background and the glyphs.
C18_Witness ==
    /\ call.paints = 2
    /\ ~call.panicked
    /\ Get(call.highlights, 0) = 2
    /\ Now(0).visuals.glyph_index_start > 0
    /\ Len(Now(0).visuals.mesh.indices)
           = Len(Get(call.original, 0).visuals.mesh.indices) + 12
    /\ Len(Get(call.original, 0).visuals.mesh.indices) > Now(0).visuals.glyph_index_start

----------------------------------------------------------------------------
(* The last call on the State, as the properties read it. *)

\* The last call was on_window_event with a KeyboardInput.
KeyboardInput == input.op = "on_window_event" /\ input.event.type = "KeyboardInput"

\* The last call was on_window_event with a KeyboardInput of the Tab key.
TabKey ==
    /\ KeyboardInput
    /\ input.event.event.logical_key = [kind |-> "Named", name |-> "Tab"]

\* A synthetic key press.
SyntheticPress == input.event.is_synthetic /\ input.event.event.state = "Pressed"

\* The events the last call pushed.
Pushed == pushed(Len(input.pre.egui_input.events), state.egui_input.events)

C14_AllowImeIsLast ==
    allow_ime(state) = IF window.set_ime_allowed = <<>> THEN FALSE
                       ELSE window.set_ime_allowed[Len(window.set_ime_allowed)]

RECURSIVE Flatten(_)
\* The sequences of a sequence, one after the other.
Flatten(seqs) == IF seqs = <<>> THEN <<>> ELSE Head(seqs) \o Flatten(Tail(seqs))

\* C15: on_window_event appends to egui_input.events; take_egui_input returns
\* the events that are there and leaves none; so what the takes returned, one
\* take after the other, followed by what is still there, is every event in
\* the order it was pushed.
C15_EachEventOnce ==
    /\ Flatten(input.taken) \o state.egui_input.events = input.arrived
    /\ input.op = "on_window_event" =>
           Upto(state.egui_input.events, Len(input.pre.egui_input.events))
               = input.pre.egui_input.events
    /\ input.op = "take_egui_input" =>
           /\ state.egui_input.events = <<>>
           /\ input.taken[Len(input.taken)] = input.pre.egui_input.events

\* Two takes, each with events of its own, the first with more than one.
C15_Witness ==
    /\ input.takes = 2
    /\ Len(input.taken[1]) > 1
    /\ input.taken[2] # <<>>
    /\ input.taken[1] # input.taken[2]
    /\ input.op = "take_egui_input"
    /\ Len(input.arrived) = Len(input.taken[1]) + Len(input.taken[2])

\* The last call was on_window_event with a Touch whose id is not the one
\* being translated to the pointer.
OtherTouch ==
    /\ input.op = "on_window_event"
    /\ input.event.type = "Touch"
    /\ is_some(input.pre.pointer_touch_id)
    /\ input.pre.pointer_touch_id # Some(input.event.touch.id)

\* C16: while a touch is translated to the pointer, a Touch of another id
\* pushes one egui Touch event and nothing else, and leaves pointer_touch_id
\* and pointer_pos_in_points as they were.
C16_OtherTouch ==
    OtherTouch =>
        /\ Upto(state.egui_input.events, Len(input.pre.egui_input.events))
               = input.pre.egui_input.events
        /\ Len(Pushed) = 1
        /\ Pushed[1].type = "Touch"
        /\ Pushed[1].id = input.event.touch.id
        /\ state.pointer_touch_id = input.pre.pointer_touch_id
        /\ state.pointer_pos_in_points = input.pre.pointer_pos_in_points

\* The second finger lifted while the first is the pointer, which stays in
\* the window.
C16_Witness ==
    /\ OtherTouch
    /\ input.event.touch.phase = "Ended"
    /\ state.pointer_touch_id = Some(1 - input.event.touch.id)
    /\ is_some(state.pointer_pos_in_points)
    /\ Len(Pushed) = 1

----------------------------------------------------------------------------
(* The IME events in the stream of egui events. *)

IsIme(e, kinds) == e.type = "Ime" /\ e.ime.kind \in kinds

IsImeMark(e) == IsIme(e, {"Enabled", "Disabled"})

\* The ImeEvent::Enabled and ImeEvent::Disabled pushed so far, in order.
ImeMarks == SelectSeq(input.arrived, IsImeMark)

\* C21: the events pushed never hold two ImeEvent::Enabled without an
\* ImeEvent::Disabled between them, and has_sent_ime_enabled is true exactly
\* when the last ImeEvent::Enabled or ImeEvent::Disabled pushed is an Enabled.
C21_EnabledOnce ==
    /\ \A i \in 1 .. Len(ImeMarks) - 1 :
           ~(ImeMarks[i].ime.kind = "Enabled" /\ ImeMarks[i + 1].ime.kind = "Enabled")
    /\ state.has_sent_ime_enabled
           <=> (ImeMarks # <<>> /\ ImeMarks[Len(ImeMarks)].ime.kind = "Enabled")

\* An Ime::Enabled arrived after ImeEvent::Enabled was sent and taken, on a
\* platform that does not ignore Ime::Enabled, and pushed no second one.
C21_Witness ==
    /\ input.op = "on_window_event"
    /\ input.event.type = "Ime"
    /\ input.event.ime.kind = "Enabled"
    /\ window.target_os = "windows"
    /\ input.pre.has_sent_ime_enabled
    /\ input.takes > 0
    /\ state.has_sent_ime_enabled
    /\ Len(ImeMarks) = 1

\* C22: in the events pushed every ImeEvent::Preedit comes after an
\* ImeEvent::Enabled with no ImeEvent::Disabled between the two, and every
\* ImeEvent::Commit has an ImeEvent::Disabled right after it.
C22_PreeditEnabled ==
    \A i \in 1 .. Len(input.arrived) :
        /\ IsIme(input.arrived[i], {"Preedit"}) =>
               \E j \in 1 .. i - 1 :
                   /\ IsIme(input.arrived[j], {"Enabled"})
                   /\ \A k \in j + 1 .. i - 1 : ~IsIme(input.arrived[k], {"Disabled"})
        /\ IsIme(input.arrived[i], {"Commit"}) =>
               /\ i < Len(input.arrived)
               /\ IsIme(input.arrived[i + 1], {"Disabled"})

\* On Linux a Preedit arrived after a Commit: Commit, Disabled, a fresh
\* Enabled, Preedit.
C22_Witness ==
    /\ window.target_os = "linux"
    /\ \E i \in 1 .. Len(input.arrived) - 3 :
           /\ IsIme(input.arrived[i], {"Commit"})
           /\ IsIme(input.arrived[i + 1], {"Disabled"})
           /\ IsIme(input.arrived[i + 2], {"Enabled"})
           /\ IsIme(input.arrived[i + 3], {"Preedit"})

----------------------------------------------------------------------------
(* The last call of handle_platform_output, as the properties read it. *)

HandledOutput == input.op = "handle_platform_output"

\* `pixels_per_point * ime.rect` of the output handled last.
ImeRectPx == scale_rect(pixels_per_point(egui_ctx, window), input.output.ime[1].rect)

\* The calls of one function of the window that the last call added.
NewCalls(fn) == pushed(Len(input.pre_window[fn]), window[fn])

\* C23: handle_platform_output calls Window::set_ime_allowed only when
\* ime.is_some() differs from the stored allow_ime, and allow_ime is
\* ime.is_some() afterwards; it calls Window::set_ime_cursor_area only when ime
\* is Some and the rectangle in pixels differs from the stored ime_rect_px or
\* egui has input events; with ime None the stored ime_rect_px is None
\* afterwards.
C23_Debounced ==
    HandledOutput =>
        /\ NewCalls("set_ime_allowed") =
               IF input.pre.allow_ime # is_some(input.output.ime)
               THEN << is_some(input.output.ime) >>
               ELSE << >>
        /\ state.allow_ime = is_some(input.output.ime)
        /\ NewCalls("set_ime_cursor_area") =
               IF /\ is_some(input.output.ime)
                  /\ \/ input.pre.ime_rect_px # Some(ImeRectPx)
                     \/ egui_ctx.input_has_events
               THEN << ImeRectPx >>
               ELSE << >>
        /\ is_none(input.output.ime) => state.ime_rect_px = None

\* A frame ended with the IME at the place it had, allowed as it was, and egui
\* without events: no call on the window for the IME.
C23_Witness ==
    /\ HandledOutput
    /\ is_some(input.output.ime)
    /\ input.pre.allow_ime
    /\ input.pre.ime_rect_px = Some(ImeRectPx)
    /\ ~egui_ctx.input_has_events
    /\ Len(window.set_ime_allowed) = 1
    /\ Len(window.set_ime_cursor_area) = 1
    /\ NewCalls("set_ime_allowed") = << >>
    /\ NewCalls("set_ime_cursor_area") = << >>

----------------------------------------------------------------------------
(* The cursor of the window, as State::set_cursor_icon leaves it. *)

\* The icon the output handled last asks for.
Requested == input.output.cursor_icon

\* The last call made no call for the cursor.
NoCursorCall == NewCalls("set_cursor_visible") = << >> /\ NewCalls("set_cursor") = << >>

\* The cursor the window was last told to show is the one of the icon c:
\* hidden for CursorIcon::None, visible with the translated icon otherwise.
Shows(c) ==
    /\ window.set_cursor_visible # << >>
    /\ window.set_cursor_visible[Len(window.set_cursor_visible)] = (c # "None")
    /\ c # "None" =>
           /\ window.set_cursor # << >>
           /\ window.set_cursor[Len(window.set_cursor)] = translate_cursor(c)[1]

\* C24: set_cursor_icon makes no call on the window when the icon asked for is
\* current_cursor_icon, and whenever current_cursor_icon is Some(c) the cursor
\* last applied to the window is the one of c.
C24_CursorApplied ==
    /\ HandledOutput /\ input.pre.current_cursor_icon = Some(Requested) => NoCursorCall
    /\ is_some(state.current_cursor_icon) => Shows(state.current_cursor_icon[1])

\* The hand is asked for a second time: the window was told once, and shows
\* winit's Pointer.
C24_Witness ==
    /\ HandledOutput
    /\ Requested = "PointingHand"
    /\ input.pre.current_cursor_icon = Some("PointingHand")
    /\ state.current_cursor_icon = Some("PointingHand")
    /\ NoCursorCall
    /\ window.set_cursor[Len(window.set_cursor)] = "Pointer"

\* C25, as stated: a call of set_cursor_icon with the pointer outside the
\* window applies no cursor and leaves current_cursor_icon None.
C25_ForgottenOutside ==
    HandledOutput /\ is_none(input.pre.pointer_pos_in_points) =>
        /\ NoCursorCall
        /\ state.current_cursor_icon = None

\* C25, amended: with the pointer outside the window no cursor is applied, and
\* current_cursor_icon is None afterwards unless it is the icon asked for,
\* which it then stays; with the pointer inside, current_cursor_icon is the
\* icon asked for afterwards and the window shows it, applied by this call
\* when current_cursor_icon was None.
C25_ForgottenUnlessSame ==
    HandledOutput =>
        /\ is_none(input.pre.pointer_pos_in_points) =>
               /\ NoCursorCall
               /\ state.current_cursor_icon =
                      IF input.pre.current_cursor_icon = Some(Requested)
                      THEN Some(Requested)
                      ELSE None
        /\ is_some(input.pre.pointer_pos_in_points) =>
               /\ state.current_cursor_icon = Some(Requested)
               /\ Shows(Requested)
               /\ input.pre.current_cursor_icon = None => ~NoCursorCall

\* The pointer came back to the window after a frame had ended without it, and
\* the frame after applied the icon.
C25_Witness ==
    /\ HandledOutput
    /\ input.outputs >= 2
    /\ input.arrived # << >>
    /\ input.arrived[Len(input.arrived)].type = "PointerMoved"
    /\ is_some(input.pre.pointer_pos_in_points)
    /\ input.pre.current_cursor_icon = None
    /\ state.current_cursor_icon = Some(Requested)
    /\ ~NoCursorCall

====
